---- MODULE Spec2Model ----
(***************************************************************************)
(* Model of the TPIE pipelining runtime (tpie/pipelining/runtime.cpp):     *)
(* the directed graph primitive, the satisfiable-edge graph, the phase     *)
(* partitioner and orderer, and the phase-by-phase executor.               *)
(*                                                                         *)
(* Graph nodes are natural numbers.  A graph<size_t> is keyed by phase     *)
(* numbers; a graph<node *> is keyed by the node's address, which the      *)
(* model keeps as a natural number per node (addr).                        *)
(***************************************************************************)
EXTENDS Integers, Sequences, FiniteSets, TLC

\* ------------------------------------------------------------------------
\* Bounds of the model
\* ------------------------------------------------------------------------
MaxNodes == 3
MaxRels == 3
MaxCalls == 2
MaxDatastructures == 1

\* the most nodes of a pipeline whose resources are apportioned
MaxResNodes == 3
\* the nodes and the add_edge calls of a graph
MaxGraphNodes == 4
MaxGraphEdges == 3
\* the relations between the phases of a three-phase pipeline
MaxPhaseRels == 2

\* ------------------------------------------------------------------------
\* Sequence and set helpers (std::set / std::map iterate in key order)
\* ------------------------------------------------------------------------
Range(s) == {s[i] : i \in DOMAIN s}

MinOf(S) == CHOOSE x \in S : \A y \in S : x <= y

RECURSIVE SortedSeq(_)
SortedSeq(S) == IF S = {} THEN <<>>
                ELSE LET m == MinOf(S) IN <<m>> \o SortedSeq(S \ {m})

\* position of the first occurrence of x in s, 0 when absent (std::find)
IndexOf(s, x) == IF \E i \in DOMAIN s : s[i] = x
                 THEN MinOf({i \in DOMAIN s : s[i] = x})
                 ELSE 0

RECURSIVE SortedPairs(_)
SortedPairs(S) == IF S = {} THEN <<>>
                  ELSE LET m == CHOOSE p \in S : \A q \in S :
                                    p = q \/ p[1] < q[1] \/ (p[1] = q[1] /\ p[2] < q[2])
                       IN <<m>> \o SortedPairs(S \ {m})

\* ------------------------------------------------------------------------
\* graph<T>: m_nodes and m_edgeLists
\* ------------------------------------------------------------------------
EmptyGraph == [nodes |-> {}, edges |-> <<>>]

graph_add_node(g, v) ==
    IF v \in g.nodes THEN g
    ELSE [nodes |-> g.nodes \cup {v}, edges |-> (v :> <<>>) @@ g.edges]

graph_add_edge(g, u, v) ==
    LET g2 == graph_add_node(graph_add_node(g, u), v)
    IN [g2 EXCEPT !.edges[u] = Append(@, v)]

\* depth_first_search::BAD
BAD == -1

\* depth_first_search::visit.  st = [time, fin, ret]: m_time, m_finishTime
\* and the value returned by the last visit.
\* "return m_finishTime[u] = m_time++", reached unless a visit returned BAD
dfs_finish(st, u) ==
    IF st.ret = BAD THEN st
    ELSE [time |-> st.time + 1, fin |-> [st.fin EXCEPT ![u] = st.time], ret |-> st.time]

RECURSIVE dfs_visit(_, _, _), dfs_edges(_, _, _, _)
dfs_visit(E, st, u) ==
    IF u \in DOMAIN st.fin
    THEN [st EXCEPT !.ret = IF st.fin[u] = 0 THEN BAD ELSE st.fin[u]]
    ELSE dfs_finish(dfs_edges(E, [time |-> st.time + 1, fin |-> (u :> 0) @@ st.fin, ret |-> 0],
                              E[u], 1), u)

\* the loop over the edge list, left as soon as a visit returned BAD
dfs_edges(E, st, edgeList, i) ==
    IF st.ret = BAD \/ i > Len(edgeList) THEN st
    ELSE dfs_edges(E, dfs_visit(E, st, edgeList[i]), edgeList, i + 1)

dfs_new == [time |-> 0, fin |-> <<>>, ret |-> 0]

\* visit every node of the sequence roots in turn, stopping at the first BAD
RECURSIVE dfs_roots(_, _, _, _)
dfs_roots(E, st, roots, i) ==
    IF st.ret = BAD \/ i > Len(roots) THEN st
    ELSE dfs_roots(E, dfs_visit(E, st, roots[i]), roots, i + 1)

graph_check_acyclical(g) ==
    dfs_roots(g.edges, dfs_new, SortedSeq(g.nodes), 1).ret # BAD

\* a variant that sorts by ascending finish time: C28 does not hold of it
ByAscendingFinish(nodes, st) ==
    IF st.ret = BAD THEN [ok |-> FALSE, order |-> <<>>]
    ELSE [ok |-> TRUE,
          order |-> [i \in 1..Cardinality(nodes) |->
                        CHOOSE v \in nodes :
                            Cardinality({w \in nodes : st.fin[w] < st.fin[v]}) = i - 1]]

\* nodes sorted by descending (finish time, node); finish times are distinct.
\* ok = FALSE stands for not_a_dag_exception, thrown when a visit returned BAD
ByDescendingFinish(nodes, st) ==
    IF st.ret = BAD THEN [ok |-> FALSE, order |-> <<>>]
    ELSE [ok |-> TRUE,
          order |-> [i \in 1..Cardinality(nodes) |->
                        CHOOSE v \in nodes :
                            Cardinality({w \in nodes : st.fin[w] > st.fin[v]}) = i - 1]]

\* graph::topological_order: ok = FALSE stands for not_a_dag_exception
graph_topological_order(g) ==
    ByDescendingFinish(g.nodes, dfs_roots(g.edges, dfs_new, SortedSeq(g.nodes), 1))

\* graph::rootfirst_topological_order: a second search that visits the
\* nodes in the order t that topological_order gave
graph_rootfirst_topological_order(g, t) ==
    IF ~t.ok THEN t
    ELSE ByDescendingFinish(g.nodes, dfs_roots(g.edges, dfs_new, t.order, 1))

\* ------------------------------------------------------------------------
\* graph::SCC (Tarjan).  st = [index, S, indices, lowlinks, onStack,
\* components]; the top of the stack S is its last element.
\* ------------------------------------------------------------------------
scc_new == [index |-> 0, S |-> <<>>, indices |-> <<>>, lowlinks |-> <<>>,
            onStack |-> {}, components |-> <<>>]

\* the do/while loop popping the component rooted at u
scc_pop(st, u) ==
    LET k == IndexOf(st.S, u)
        component == {st.S[j] : j \in k..Len(st.S)}
    IN [st EXCEPT !.S = SubSeq(@, 1, k - 1),
                  !.onStack = @ \ component,
                  !.components = Append(@, component)]

\* "if (indices[u] == lowlinks[u])": u is the root of a component
scc_root(st, u) == IF st.indices[u] = st.lowlinks[u] THEN scc_pop(st, u) ELSE st

\* "lowlinks[u] = std::min(lowlinks[u], lowlinks[v])"
scc_lowlink(st, u, v) ==
    [st EXCEPT !.lowlinks[u] = IF @ < st.lowlinks[v] THEN @ ELSE st.lowlinks[v]]

RECURSIVE SCC_visit(_, _, _), SCC_edges(_, _, _, _)
SCC_visit(E, st, u) ==
    scc_root(SCC_edges(E, [st EXCEPT !.indices = (u :> st.index) @@ @,
                                     !.lowlinks = (u :> st.index) @@ @,
                                     !.index = @ + 1,
                                     !.S = Append(@, u),
                                     !.onStack = @ \cup {u}], u, 1), u)

SCC_edges(E, st, u, i) ==
    IF i > Len(E[u]) THEN st
    ELSE IF E[u][i] \notin DOMAIN st.indices
    THEN SCC_edges(E, scc_lowlink(SCC_visit(E, st, E[u][i]), u, E[u][i]), u, i + 1)
    ELSE IF E[u][i] \in st.onStack
    THEN SCC_edges(E, scc_lowlink(st, u, E[u][i]), u, i + 1)
    ELSE SCC_edges(E, st, u, i + 1)

RECURSIVE SCC_get_components(_, _, _, _)
SCC_get_components(E, st, roots, i) ==
    IF i > Len(roots) THEN st.components
    ELSE IF roots[i] \in DOMAIN st.indices
         THEN SCC_get_components(E, st, roots, i + 1)
         ELSE SCC_get_components(E, SCC_visit(E, st, roots[i]), roots, i + 1)

Reverse(s) == [i \in 1..Len(s) |-> s[Len(s) + 1 - i]]

\* a variant that returns the components in the order Tarjan's algorithm
\* emits them: C29 does not hold of it
graph_strongly_connected_components_unreversed(g) ==
    SCC_get_components(g.edges, scc_new, SortedSeq(g.nodes), 1)

\* graph::strongly_connected_components: Tarjan's emission order reversed
graph_strongly_connected_components(g) ==
    Reverse(SCC_get_components(g.edges, scc_new, SortedSeq(g.nodes), 1))

\* ------------------------------------------------------------------------
\* tpie::disjoint_sets: a map from each element to the representative of
\* its set.  union_set links the root of b below the root of a.
\* ------------------------------------------------------------------------
ds_new == <<>>

ds_find_set(ds, i) == ds[i]

ds_union_set(ds, a, b) ==
    LET ra == ds[a]
        rb == ds[b]
    IN [e \in DOMAIN ds |-> IF ds[e] = rb THEN ra ELSE ds[e]]

RECURSIVE ds_make_sets(_, _)
ds_make_sets(ds, S) ==
    IF S = {} THEN ds
    ELSE LET e == MinOf(S) IN ds_make_sets((e :> e) @@ ds, S \ {e})

\* ------------------------------------------------------------------------
\* satisfiable_graph: m_graph and m_satisfiableEdges
\* ------------------------------------------------------------------------
max_bruteforce_depth == 10
max_bruteforce_satisfiable == 18

sg_new == [g |-> EmptyGraph, sat |-> {}]

sg_add_edge(sg, u, v, satisfiable) ==
    [g |-> graph_add_edge(sg.g, u, v),
     sat |-> IF satisfiable THEN sg.sat \cup {<<u, v>>} ELSE sg.sat]

\* satisfiable_graph::paths: the cache extended with the path counts from u
RECURSIVE sg_paths(_, _, _), sg_paths_edges(_, _, _, _, _)
sg_paths(sg, u, cache) ==
    IF u \in DOMAIN cache THEN cache
    ELSE LET r == sg_paths_edges(sg, u, 1, cache, [w \in sg.g.nodes |-> 0])
         IN (u :> r.res) @@ r.cache

sg_paths_edges(sg, u, i, cache, res) ==
    IF i > Len(sg.g.edges[u]) THEN [cache |-> cache, res |-> res]
    ELSE LET v == sg.g.edges[u][i]
             c2 == sg_paths(sg, v, cache)
         IN sg_paths_edges(sg, u, i + 1, c2,
                [w \in sg.g.nodes |-> res[w] + c2[v][w] + (IF w = v THEN 1 ELSE 0)])

RECURSIVE sg_remove_edges(_, _, _, _)
sg_remove_edges(sg, u, vs, i) ==
    IF i > Len(vs) THEN sg
    ELSE sg_remove_edges(
             [g |-> LET k == IndexOf(sg.g.edges[u], vs[i])
                    IN IF k = 0 THEN sg.g
                       ELSE [sg.g EXCEPT !.edges[u] = SubSeq(@, 1, k - 1) \o SubSeq(@, k + 1, Len(@))],
              sat |-> sg.sat \ {<<u, vs[i]>>}],
             u, vs, i + 1)

SelectSeq2(s, Test(_)) ==
    LET RECURSIVE sel(_)
        sel(i) == IF i > Len(s) THEN <<>>
                  ELSE (IF Test(s[i]) THEN <<s[i]>> ELSE <<>>) \o sel(i + 1)
    IN sel(1)

RECURSIVE sg_preprocess_loop(_, _, _, _)
sg_preprocess_loop(sg, cache, us, i) ==
    IF i > Len(us) THEN sg
    ELSE LET u == us[i]
             c2 == IF Len(sg.g.edges[u]) = 0 THEN cache ELSE sg_paths(sg, u, cache)
             unnecessaryEdges == SelectSeq2(sg.g.edges[u], LAMBDA v : c2[u][v] > 1)
         IN sg_preprocess_loop(sg_remove_edges(sg, u, unnecessaryEdges, 1), c2, us, i + 1)

\* satisfiable_graph::preprocess: ok = FALSE stands for not_a_dag_exception
sg_preprocess(sg) ==
    IF ~graph_check_acyclical(sg.g) THEN [ok |-> FALSE, sg |-> sg]
    ELSE [ok |-> TRUE, sg |-> sg_preprocess_loop(sg, <<>>, SortedSeq(sg.g.nodes), 1)]

RECURSIVE sg_subgraph_edges(_, _, _, _, _)
sg_subgraph_edges(sg, nodes, g, u, i) ==
    IF i > Len(sg.g.edges[u]) THEN g
    ELSE LET v == sg.g.edges[u][i]
         IN sg_subgraph_edges(sg, nodes,
                IF v \in nodes THEN sg_add_edge(g, u, v, <<u, v>> \in sg.sat) ELSE g,
                u, i + 1)

RECURSIVE sg_subgraph_loop(_, _, _, _, _)
sg_subgraph_loop(sg, nodes, g, us, i) ==
    IF i > Len(us) THEN g
    ELSE sg_subgraph_loop(sg, nodes,
            sg_subgraph_edges(sg, nodes, [g EXCEPT !.g = graph_add_node(@, us[i])], us[i], 1), us, i + 1)

RECURSIVE graph_add_reversed(_, _, _)
graph_add_reversed(g, ps, i) ==
    IF i > Len(ps) THEN g
    ELSE graph_add_reversed(graph_add_edge(g, ps[i][2], ps[i][1]), ps, i + 1)

\* one subgraph per component
sg_subgraphs(sg, components) ==
    [i \in 1..Len(components) |->
        sg_subgraph_loop(sg, components[i], sg_new, SortedSeq(components[i]), 1)]

\* a variant that leaves out the reversed satisfiable edges, so that every
\* node is a part of its own: C25 does not hold of it
sg_split_graph_forward(sg) ==
    sg_subgraphs(sg, graph_strongly_connected_components(sg.g))

\* satisfiable_graph::split_graph
sg_split_graph(sg) ==
    sg_subgraphs(sg, graph_strongly_connected_components(
                         graph_add_reversed(sg.g, SortedPairs(sg.sat), 1)))

\* a variant that asks for every satisfiable edge: C35 does not hold of it
sg_minimum_satisfiable_edges_every_edge(sg) == Cardinality(sg.sat)

\* satisfiable_graph::minimum_satisfiable_edges
sg_minimum_satisfiable_edges(sg) == IF Cardinality(sg.sat) = 0 THEN 0 ELSE 1

\* ------------------------------------------------------------------------
\* satisfiable_graph::bruteforce_optimal_topological_order.  A result is
\* [first, satisfied, order]; the roots, an unordered_set, are tried in
\* ascending order.
\* ------------------------------------------------------------------------
\* bruteforce_optimal_topological_order_helper, and its loop over rootsCopy
\* from position i on
RECURSIVE boto_helper(_, _, _, _), boto_roots(_, _, _, _, _, _, _)
boto_helper(sg, indegrees, roots, order) ==
    IF Len(order) = Cardinality(sg.g.nodes)
    THEN [first |-> FALSE, satisfied |-> 0, order |-> order]
    ELSE boto_roots(sg, indegrees, roots, order, SortedSeq(roots), 1,
                    [first |-> TRUE, satisfied |-> 0, order |-> <<>>])

boto_roots(sg, indegrees, roots, order, rootsCopy, i, best) ==
    IF i > Len(rootsCopy) THEN best
    ELSE LET u == rootsCopy[i]
             lowered == [v \in DOMAIN indegrees |->
                            indegrees[v] - Cardinality({k \in DOMAIN sg.g.edges[u] :
                                                           sg.g.edges[u][k] = v})]
             newRoots == {v \in Range(sg.g.edges[u]) : lowered[v] = 0}
             result == boto_helper(sg, lowered, (roots \ {u}) \cup newRoots, Append(order, u))
             satisfied == result.satisfied
                          + (IF Len(order) > 0 /\ <<order[Len(order)], u>> \in sg.sat
                             THEN 1 ELSE 0)
         IN IF best.first \/ satisfied > best.satisfied
            THEN IF satisfied = Cardinality(sg.sat)
                 THEN [first |-> FALSE, satisfied |-> satisfied, order |-> result.order]
                 ELSE boto_roots(sg, indegrees, roots, order, rootsCopy, i + 1,
                         [first |-> FALSE, satisfied |-> satisfied, order |-> result.order])
            ELSE boto_roots(sg, indegrees, roots, order, rootsCopy, i + 1, best)

\* the in-degree of every node; roots are the nodes of in-degree 0
sg_bruteforce_optimal_topological_order(sg) ==
    LET indegrees == [v \in sg.g.nodes |->
                         Cardinality({e \in UNION {{u} \X DOMAIN sg.g.edges[u] : u \in sg.g.nodes} :
                                         sg.g.edges[e[1]][e[2]] = v})]
    IN [err |-> "",
        order |-> boto_helper(sg, indegrees, {u \in sg.g.nodes : indegrees[u] = 0}, <<>>).order]

\* ------------------------------------------------------------------------
\* satisfiable_graph::bruteforce_satisfiable_edges
\* ------------------------------------------------------------------------
\* (1 << j) & i
BitSet(i, j) == (i \div (2 ^ j)) % 2 = 1

\* nodeIndices: the rank of u in the node set, from 0
sg_nodeIndex(sg, u) == Cardinality({w \in sg.g.nodes : w < u})

\* The first pass over the chosen edges of combination i: contract their
\* endpoints, and give up (bad) when a node gets two satisfied out-edges or
\* two satisfied in-edges.
RECURSIVE bse_contract(_, _, _, _, _)
bse_contract(sg, ps, i, j, st) ==
    IF j >= Len(ps) \/ st.bad THEN st
    ELSE IF ~BitSet(i, j) THEN bse_contract(sg, ps, i, j + 1, st)
    ELSE LET k == sg_nodeIndex(sg, ps[j + 1][1])
             l == sg_nodeIndex(sg, ps[j + 1][2])
             cn == ds_union_set(st.contractedNodes, k, l)
         IN IF k \in st.satisfiedOut \/ l \in st.satisfiedIn
            THEN [st EXCEPT !.contractedNodes = cn, !.bad = TRUE]
            ELSE bse_contract(sg, ps, i, j + 1,
                    [contractedNodes |-> cn,
                     satisfiedOut |-> st.satisfiedOut \cup {k},
                     satisfiedIn |-> st.satisfiedIn \cup {l},
                     bad |-> FALSE,
                     satisfied |-> st.satisfied + 1])

\* contractedPaths: per contracted node, the graph of its chosen edges
RECURSIVE bse_paths(_, _, _, _, _, _)
bse_paths(sg, ps, i, j, cn, cp) ==
    IF j >= Len(ps) THEN cp
    ELSE IF ~BitSet(i, j) THEN bse_paths(sg, ps, i, j + 1, cn, cp)
    ELSE LET a == sg_nodeIndex(sg, ps[j + 1][1])
             b == sg_nodeIndex(sg, ps[j + 1][2])
             k == ds_find_set(cn, a)
             old == IF k \in DOMAIN cp THEN cp[k] ELSE EmptyGraph
         IN bse_paths(sg, ps, i, j + 1, cn, (k :> graph_add_edge(old, a, b)) @@ cp)

RECURSIVE bse_graph_edges(_, _, _, _, _, _)
bse_graph_edges(sg, cn, g, u, es, i) ==
    IF i > Len(es) THEN g
    ELSE LET j == ds_find_set(cn, sg_nodeIndex(sg, u))
             k == ds_find_set(cn, sg_nodeIndex(sg, es[i]))
         IN bse_graph_edges(sg, cn, IF j # k THEN graph_add_edge(g, j, k) ELSE g,
                            u, es, i + 1)

RECURSIVE bse_graph_nodes(_, _, _, _, _)
bse_graph_nodes(sg, cn, g, us, i) ==
    IF i > Len(us) THEN g
    ELSE bse_graph_nodes(sg, cn,
            bse_graph_edges(sg, cn, g, us[i], sg.g.edges[us[i]], 1), us, i + 1)

RECURSIVE graph_add_nodes(_, _, _)
graph_add_nodes(g, vs, i) ==
    IF i > Len(vs) THEN g ELSE graph_add_nodes(graph_add_node(g, vs[i]), vs, i + 1)

\* contractedGraph of a contraction cn
bse_contractedGraph(sg, cn) ==
    LET N == Cardinality(sg.g.nodes)
        g0 == graph_add_nodes(EmptyGraph, [j \in 1..N |-> ds_find_set(cn, j - 1)], 1)
    IN bse_graph_nodes(sg, cn, g0, SortedSeq(sg.g.nodes), 1)

\* the rest of an iteration whose chosen edges can all be satisfied at
\* once: the contracted graph has to be acyclic
bse_feasible(sg, ps, i, st, cg) ==
    IF ~graph_check_acyclical(cg) THEN [feasible |-> FALSE]
    ELSE [feasible |-> TRUE,
          satisfied |-> st.satisfied,
          contractedPaths |-> bse_paths(sg, ps, i, 0, st.contractedNodes, <<>>),
          contractedGraph |-> cg]

\* "if (bad) continue; if (satisfied < minimumSatisfiable) continue;"
bse_contracted(sg, ps, i, st) ==
    IF st.bad \/ st.satisfied < sg_minimum_satisfiable_edges(sg)
    THEN [feasible |-> FALSE]
    ELSE bse_feasible(sg, ps, i, st, bse_contractedGraph(sg, st.contractedNodes))

\* one iteration of the loop over the combinations: feasible or not
bse_try(sg, ps, i) ==
    bse_contracted(sg, ps, i,
        bse_contract(sg, ps, i, 0,
            [contractedNodes |-> ds_make_sets(ds_new, 0..(Cardinality(sg.g.nodes) - 1)),
             satisfiedOut |-> {}, satisfiedIn |-> {}, bad |-> FALSE, satisfied |-> 0]))

\* "if (noBest || satisfied > bestSatisfied)": the candidate c becomes the best
bse_keep(best, c) ==
    IF c.feasible /\ (best.noBest \/ c.satisfied > best.satisfied)
    THEN [noBest |-> FALSE, satisfied |-> c.satisfied,
          contractedPaths |-> c.contractedPaths,
          contractedGraph |-> c.contractedGraph]
    ELSE best

\* the loop over the combinations, left once every edge is satisfied
RECURSIVE bse_search(_, _, _, _)
bse_search(sg, ps, i, best) ==
    IF i >= 2 ^ Len(ps) \/ (~best.noBest /\ best.satisfied = Len(ps)) THEN best
    ELSE bse_search(sg, ps, i + 1, bse_keep(best, bse_try(sg, ps, i)))

\* replace the contracted node i of the order t by the nodes of its path;
\* ok = FALSE stands for a not_a_dag_exception from the topological order
\* of the path
ExpandPath(t, i, path) ==
    IF ~path.ok THEN path
    ELSE [ok |-> TRUE,
          order |-> SubSeq(t.order, 1, IndexOf(t.order, i) - 1) \o path.order
                    \o SubSeq(t.order, IndexOf(t.order, i) + 1, Len(t.order))]

\* expansion of the contracted chains of the order t
RECURSIVE ExpandPaths(_, _, _, _)
ExpandPaths(t, paths, keys, i) ==
    IF ~t.ok \/ i > Len(keys) THEN t
    ELSE ExpandPaths(ExpandPath(t, keys[i], graph_topological_order(paths[keys[i]])),
                     paths, keys, i + 1)

\* "order.push_back(revNodeIndices[i])"
bse_order(sg, e) ==
    [err |-> IF e.ok THEN "" ELSE "NotADag",
     order |-> [k \in 1..Len(e.order) |->
                  CHOOSE u \in sg.g.nodes : sg_nodeIndex(sg, u) = e.order[k]]]

\* the order of the best contraction, with its chains expanded
bse_expand(sg, best) ==
    IF best.noBest THEN [err |-> "assert", order |-> <<>>]
    ELSE bse_order(sg, ExpandPaths(graph_topological_order(best.contractedGraph),
                                   best.contractedPaths,
                                   SortedSeq(DOMAIN best.contractedPaths), 1))

\* err: "" (an order was found), "assert" (tp_assert(!noBest)) or "NotADag"
sg_bruteforce_satisfiable_edges(sg) ==
    bse_expand(sg, bse_search(sg, SortedPairs(sg.sat), 0, [noBest |-> TRUE, satisfied |-> 0]))

\* graph::sort_edge_list as greedy_topological_order calls it, "Make the
\* satisfiable edges be last in the edge lists": the edges that are not
\* satisfiable, then the satisfiable ones, each kind in the order it had
\* (std::sort of a range this short is an insertion sort)
sg_sort_edge_lists(sg) ==
    [sg.g EXCEPT !.edges =
        [u \in DOMAIN sg.g.edges |->
            SelectSeq2(sg.g.edges[u], LAMBDA v : <<u, v>> \notin sg.sat)
            \o SelectSeq2(sg.g.edges[u], LAMBDA v : <<u, v>> \in sg.sat)]]

\* satisfiable_graph::greedy_topological_order on the sorted graph g
sg_greedy_topological_order(g) ==
    LET r == graph_rootfirst_topological_order(g, graph_topological_order(g))
    IN [err |-> IF r.ok THEN "" ELSE "NotADag", order |-> r.order]

\* "g.preprocess(); (g.*get_order)(subOrder)" on a subgraph, p what its
\* preprocess gave
sg_order_subgraph(p, strategy) ==
    IF ~p.ok THEN [err |-> "NotADag", order |-> <<>>]
    ELSE CASE strategy = "BRUTEFORCE_ORDER" -> sg_bruteforce_optimal_topological_order(p.sg)
           [] strategy = "BRUTEFORCE_SATISFIABLE" -> sg_bruteforce_satisfiable_edges(p.sg)
           [] strategy = "GREEDY" -> sg_greedy_topological_order(sg_sort_edge_lists(p.sg))
           [] strategy = "AUTO" ->
                  \* satisfiable_graph::auto_topological_order
                  IF Cardinality(p.sg.sat) <= max_bruteforce_satisfiable
                  THEN sg_bruteforce_satisfiable_edges(p.sg)
                  ELSE IF Cardinality(p.sg.g.nodes) <= max_bruteforce_depth
                  THEN sg_bruteforce_optimal_topological_order(p.sg)
                  ELSE sg_greedy_topological_order(sg_sort_edge_lists(p.sg))

\* "order.insert(order.end(), subOrder.begin(), subOrder.end())"
sg_insert_order(acc, r) ==
    IF r.err # "" THEN r ELSE [err |-> "", order |-> acc.order \o r.order]

RECURSIVE sg_order_subgraphs(_, _, _, _)
sg_order_subgraphs(subgraphs, i, acc, strategy) ==
    IF acc.err # "" \/ i > Len(subgraphs) THEN acc
    ELSE sg_order_subgraphs(subgraphs, i + 1,
            sg_insert_order(acc, sg_order_subgraph(sg_preprocess(subgraphs[i]), strategy)),
            strategy)

\* the graph is split and its parts are ordered, p what preprocess gave
sg_split_and_order(p, strategy) ==
    IF ~p.ok THEN [err |-> "NotADag", order |-> <<>>]
    ELSE sg_order_subgraphs(sg_split_graph(p.sg), 1, [err |-> "", order |-> <<>>], strategy)

\* satisfiable_graph::topological_order
sg_topological_order(sg, strategy) == sg_split_and_order(sg_preprocess(sg), strategy)

\* satisfiable_graph::satisfied_in_order
sg_satisfied_in_order(sg, order) ==
    IF Len(order) = 0 THEN 0
    ELSE Cardinality({i \in 1..(Len(order) - 1) : <<order[i], order[i + 1]>> \in sg.sat})

\* ------------------------------------------------------------------------
\* node_map: the nodes (ids 1..n), what each node answers to can_evacuate(),
\* the address of each node object, and the relation multimap (a sequence
\* ordered by the key "from"; equal keys stay in insertion order), and the
\* datastructures each node registered (name -> [min, max, priority]).
\* nm = [n, canEvac, addr, rels, ds]
\* ------------------------------------------------------------------------
IsDepends(rel) == rel \in {"depends", "no_forward_depends", "memory_share_depends"}

\* std::multimap::insert: after the last entry whose key is not greater
node_map_add_relation(rels, from, to, rel) ==
    LET k == Cardinality({i \in DOMAIN rels : rels[i].from <= from})
    IN SubSeq(rels, 1, k) \o <<[from |-> from, to |-> to, rel |-> rel]>>
       \o SubSeq(rels, k + 1, Len(rels))

NodeAt(nm, a) == CHOOSE id \in 1..nm.n : nm.addr[id] = a

\* ------------------------------------------------------------------------
\* runtime::get_phase_map
\* ------------------------------------------------------------------------
\* a variant that unites the endpoints of every relation, the depends kinds
\* included: C23 does not hold of it
RECURSIVE gpm_union_every_relation(_, _, _)
gpm_union_every_relation(uf, rels, i) ==
    IF i > Len(rels) THEN uf
    ELSE gpm_union_every_relation(ds_union_set(uf, rels[i].from - 1, rels[i].to - 1),
                                  rels, i + 1)

RECURSIVE gpm_union(_, _, _)
gpm_union(uf, rels, i) ==
    IF i > Len(rels) THEN uf
    ELSE gpm_union(IF ~IsDepends(rels[i].rel)
                   THEN ds_union_set(uf, rels[i].from - 1, rels[i].to - 1)
                   ELSE uf, rels, i + 1)

\* the loop giving each class the next phase number at its first node
RECURSIVE gpm_number(_, _, _, _, _, _)
gpm_number(uf, N, i, phaseNumber, nextPhase, phaseMap) ==
    IF i >= N THEN phaseMap
    ELSE LET r == ds_find_set(uf, i)
         IN IF r \in DOMAIN phaseNumber
            THEN gpm_number(uf, N, i + 1, phaseNumber, nextPhase,
                            ((i + 1) :> phaseNumber[r]) @@ phaseMap)
            ELSE gpm_number(uf, N, i + 1, (r :> nextPhase) @@ phaseNumber, nextPhase + 1,
                            ((i + 1) :> nextPhase) @@ phaseMap)

get_phase_map(nm) ==
    LET uf == gpm_union(ds_make_sets(ds_new, 0..(nm.n - 1)), nm.rels, 1)
    IN gpm_number(uf, nm.n, 0, <<>>, 0, <<>>)

\* ------------------------------------------------------------------------
\* runtime::get_phase_graph
\* ------------------------------------------------------------------------
RECURSIVE gpg_edges(_, _, _, _)
gpg_edges(g, phaseMap, rels, i) ==
    IF i > Len(rels) THEN g
    ELSE gpg_edges(IF IsDepends(rels[i].rel)
                   THEN graph_add_edge(g, phaseMap[rels[i].to], phaseMap[rels[i].from])
                   ELSE g, phaseMap, rels, i + 1)

get_phase_graph(nm, phaseMap) ==
    gpg_edges(graph_add_nodes(EmptyGraph, SortedSeq(Range(phaseMap)), 1),
              phaseMap, nm.rels, 1)

\* ------------------------------------------------------------------------
\* runtime::inverse_permutation; f holds the numbers 0..N-1, the result maps
\* each number to its position, from 0
\* ------------------------------------------------------------------------
RECURSIVE ip_fill(_, _, _)
ip_fill(f, i, result) ==
    IF i > Len(f) THEN [err |-> "", result |-> result]
    ELSE IF f[i] >= Len(f) THEN [err |-> "bad range", result |-> result]
    ELSE IF result[f[i]] # Len(f) THEN [err |-> "not injective", result |-> result]
    ELSE ip_fill(f, i + 1, [result EXCEPT ![f[i]] = i - 1])

\* a variant that takes f for its own inverse: C31 does not hold of it
inverse_permutation_as_given(f) ==
    [err |-> "", result |-> [k \in 0..(Len(f) - 1) |-> f[k + 1]]]

inverse_permutation(f) ==
    LET r == ip_fill(f, 1, [k \in 0..(Len(f) - 1) |-> Len(f)])
    IN IF r.err # "" THEN r
       ELSE IF \E k \in DOMAIN r.result : r.result[k] = Len(f)
            THEN [err |-> "not surjective", result |-> r.result]
            ELSE r

\* ------------------------------------------------------------------------
\* runtime::get_phases
\* ------------------------------------------------------------------------

\* the loop over the relations: black and red edge lists, the green edge maps
RECURSIVE gp_classify(_, _, _, _)
gp_classify(nm, phaseMap, i, st) ==
    IF i > Len(nm.rels) \/ st.err # "" THEN st
    ELSE LET from == nm.rels[i].to
             to == nm.rels[i].from
             fromPhase == phaseMap[from]
             toPhase == phaseMap[to]
         IN IF fromPhase = toPhase THEN gp_classify(nm, phaseMap, i + 1, st)
            ELSE IF nm.rels[i].rel # "memory_share_depends"
            THEN gp_classify(nm, phaseMap, i + 1,
                    [st EXCEPT !.black = Append(@, <<fromPhase, toPhase>>)])
            ELSE IF nm.canEvac[from]
            THEN gp_classify(nm, phaseMap, i + 1,
                    [st EXCEPT !.red = Append(@, <<fromPhase, toPhase>>)])
            ELSE IF fromPhase \in DOMAIN st.green \/ toPhase \in DOMAIN st.revGreen
            THEN [st EXCEPT !.err = "CannotSatisfyAllGreenEdges"]
            ELSE gp_classify(nm, phaseMap, i + 1,
                    [st EXCEPT !.green = (fromPhase :> toPhase) @@ @,
                               !.revGreen = (toPhase :> fromPhase) @@ @])

\* a variant of the contraction that leaves every phase on its own: the
\* green edges are then not kept together and C3 does not hold of it
gp_contract_nothing(cn, green, keys, i) == cn

RECURSIVE gp_contract(_, _, _, _)
gp_contract(cn, green, keys, i) ==
    IF i > Len(keys) THEN cn
    ELSE gp_contract(ds_union_set(cn, keys[i], green[keys[i]]), green, keys, i + 1)

RECURSIVE gp_greenPaths(_, _, _, _, _)
gp_greenPaths(cn, green, keys, i, paths) ==
    IF i > Len(keys) THEN paths
    ELSE LET k == ds_find_set(cn, keys[i])
             old == IF k \in DOMAIN paths THEN paths[k] ELSE EmptyGraph
         IN gp_greenPaths(cn, green, keys, i + 1,
                (k :> graph_add_edge(old, keys[i], green[keys[i]])) @@ paths)

\* edges between contracted nodes; an edge inside a contracted node is dropped
gp_contractEdges(cn, edges) ==
    {p \in {<<ds_find_set(cn, edges[i][1]), ds_find_set(cn, edges[i][2])>> : i \in DOMAIN edges} :
        p[1] # p[2]}

RECURSIVE sg_add_edges(_, _, _, _)
sg_add_edges(sg, ps, i, satisfiable) ==
    IF i > Len(ps) THEN sg
    ELSE sg_add_edges(sg_add_edge(sg, ps[i][1], ps[i][2], satisfiable), ps, i + 1, satisfiable)

RECURSIVE sg_add_nodes(_, _, _)
sg_add_nodes(sg, vs, i) ==
    IF i > Len(vs) THEN sg ELSE sg_add_nodes([sg EXCEPT !.g = graph_add_node(@, vs[i])], vs, i + 1)

gp_contractedGraph(cn, phaseGraph, c) ==
    LET ns == SortedSeq(phaseGraph.nodes)
        g0 == sg_add_nodes(sg_new, [i \in 1..Len(ns) |-> ds_find_set(cn, ns[i])], 1)
        redEdgeSet == gp_contractEdges(cn, c.red)
        blackEdgeSet == gp_contractEdges(cn, c.black) \ redEdgeSet
    IN sg_add_edges(sg_add_edges(g0, SortedPairs(blackEdgeSet), 1, FALSE),
                    SortedPairs(redEdgeSet), 1, TRUE)

\* a variant that spares a node whenever its dependent runs in any later
\* phase, not only in the next one: C19 does not hold of it
gp_evacuate_any_earlier(nm, phases, k, previousNodes, evac) ==
    LET at(id) == CHOOSE p \in DOMAIN phases : id \in Range(phases[p])
    IN {nm.rels[i].to : i \in {j \in DOMAIN nm.rels :
                           /\ nm.rels[j].rel = "memory_share_depends"
                           /\ at(nm.rels[j].to) >= at(nm.rels[j].from)}}

\* the loop over the ordered phases that fills evacuateWhenDone
RECURSIVE gp_evacuate(_, _, _, _, _)
gp_evacuate(nm, phases, k, previousNodes, evac) ==
    IF k > Len(phases) THEN evac
    ELSE LET here == Range(phases[k])
             marked == {nm.rels[i].to : i \in {j \in DOMAIN nm.rels :
                            /\ nm.rels[j].from \in here
                            /\ nm.rels[j].rel = "memory_share_depends"
                            /\ nm.rels[j].to \notin previousNodes}}
         IN gp_evacuate(nm, phases, k + 1, here, evac \cup marked)

\* "Expand contracted edges in topologicalOrder"; ok = FALSE stands for a
\* not_a_dag_exception from the topological order of a green path, which
\* no handler catches
RECURSIVE gp_expand(_, _, _, _)
gp_expand(t, greenPaths, keys, i) ==
    IF ~t.ok \/ i > Len(keys) THEN t
    ELSE gp_expand(ExpandPath(t, keys[i], graph_topological_order(greenPaths[keys[i]])),
                   greenPaths, keys, i + 1)

gp_fail(err) == [err |-> err, phases |-> <<>>, evacuateWhenDone |-> {}]

\* a variant that marks no node for evacuation: C18 does not hold of it
gp_evacuated_nothing(nm, phases) ==
    [err |-> "", phases |-> phases, evacuateWhenDone |-> {}]

\* the phases in their final order and the evacuation set
gp_evacuated(nm, phases) ==
    [err |-> "", phases |-> phases, evacuateWhenDone |-> gp_evacuate(nm, phases, 1, {}, {})]

\* topologicalOrder holds the phase numbers in the order they run in;
\* "Distribute nodes according to the topological order": the nodes of a
\* phase are ordered by the address of the node object (std::map<node *, .>)
gp_distributed(nm, phaseMap, topologicalOrder, inv) ==
    IF inv.err # "" THEN gp_fail("inverse_permutation")
    ELSE gp_evacuated(nm,
            [k \in 1..Len(topologicalOrder) |->
                LET as == SortedSeq({nm.addr[id] : id \in {w \in 1..nm.n :
                                        inv.result[phaseMap[w]] = k - 1}})
                IN [i \in 1..Len(as) |-> NodeAt(nm, as[i])]])

\* e: the expanded order, or the not_a_dag_exception of a green path
gp_expanded(nm, phaseMap, e) ==
    IF ~e.ok THEN gp_fail("NotADag")
    ELSE gp_distributed(nm, phaseMap, e.order, inverse_permutation(e.order))

\* the try block around contractedGraph.topological_order: t is what it
\* gave, and its not_a_dag_exception is turned into "can't satisfy all
\* green edges"
gp_ordered(nm, phaseMap, t, greenPaths) ==
    IF t.err = "NotADag" THEN gp_fail("CannotSatisfyAllGreenEdges")
    ELSE IF t.err # "" THEN gp_fail(t.err)
    ELSE gp_expanded(nm, phaseMap,
            gp_expand([ok |-> TRUE, order |-> t.order], greenPaths,
                      SortedSeq(DOMAIN greenPaths), 1))

\* cn: contractedNodes after the green edges were contracted
gp_contracted(nm, phaseMap, phaseGraph, c, cn) ==
    gp_ordered(nm, phaseMap,
               sg_topological_order(gp_contractedGraph(cn, phaseGraph, c), "AUTO"),
               gp_greenPaths(cn, c.green, SortedSeq(DOMAIN c.green), 1, <<>>))

\* c: the edges as classified; a second green edge out of a phase or into
\* a phase was an exception
gp_classified(nm, phaseMap, phaseGraph, c) ==
    IF c.err # "" THEN gp_fail(c.err)
    ELSE gp_contracted(nm, phaseMap, phaseGraph, c,
            gp_contract(ds_make_sets(ds_new, phaseGraph.nodes), c.green,
                        SortedSeq(DOMAIN c.green), 1))

get_phases(nm, phaseMap, phaseGraph) ==
    gp_classified(nm, phaseMap, phaseGraph,
        gp_classify(nm, phaseMap, 1, [black |-> <<>>, red |-> <<>>, green |-> <<>>,
                                      revGreen |-> <<>>, err |-> ""]))

\* ------------------------------------------------------------------------
\* runtime::get_graph, get_item_flow_graphs, get_actor_graphs.  A graph
\* over node pointers is keyed by the addresses of the nodes.
\* ------------------------------------------------------------------------
RECURSIVE gg_edges(_, _, _, _, _)
gg_edges(nm, g, es, j, itemFlow) ==
    IF j > Len(es) THEN g
    ELSE LET u == nm.addr[es[j].from]
             v == nm.addr[es[j].to]
         IN gg_edges(nm,
                IF IsDepends(es[j].rel) THEN g
                ELSE IF itemFlow /\ es[j].rel = "pulls" THEN graph_add_edge(g, v, u)
                ELSE graph_add_edge(g, u, v),
                es, j + 1, itemFlow)

RECURSIVE gg_nodes(_, _, _, _, _)
gg_nodes(nm, phase, i, g, itemFlow) ==
    IF i > Len(phase) THEN g
    ELSE gg_nodes(nm, phase, i + 1,
            gg_edges(nm, graph_add_node(g, nm.addr[phase[i]]),
                     SelectSeq2(nm.rels, LAMBDA r : r.from = phase[i]), 1, itemFlow),
            itemFlow)

get_graph(nm, phase, itemFlow) == gg_nodes(nm, phase, 1, EmptyGraph, itemFlow)

\* a variant that takes the relations as declared, without turning the
\* pulls relations round: C5 does not hold of it
get_item_flow_graphs_as_declared(nm, phases) ==
    [i \in 1..Len(phases) |-> get_graph(nm, phases[i], FALSE)]

get_item_flow_graphs(nm, phases) == [i \in 1..Len(phases) |-> get_graph(nm, phases[i], TRUE)]

\* the nodes at the addresses of an order
node_order(nm, t) ==
    [ok |-> t.ok, order |-> [i \in 1..Len(t.order) |-> NodeAt(nm, t.order[i])]]

\* graph<node *>::topological_order, as node ids
node_topological_order(nm, g) == node_order(nm, graph_topological_order(g))

\* ------------------------------------------------------------------------
\* initiators
\* ------------------------------------------------------------------------
\* node_map::in_degree counts the relations of the kind that point to the
\* node
is_initiator(nm, n) ==
    /\ Cardinality({i \in DOMAIN nm.rels : nm.rels[i].to = n /\ nm.rels[i].rel = "pushes"}) = 0
    /\ Cardinality({i \in DOMAIN nm.rels : nm.rels[i].to = n /\ nm.rels[i].rel = "pulls"}) = 0

\* a variant that lets every pipeline pass: C10 does not hold of it
ensure_initiators_unchecked(nm, phases) == TRUE

\* ensure_initiators: FALSE stands for no_initiator_node
ensure_initiators(nm, phases) ==
    \A i \in DOMAIN phases : \E j \in DOMAIN phases[i] : is_initiator(nm, phases[i][j])

\* ------------------------------------------------------------------------
\* The calls the runtime makes are recorded as events [op, n]: n is a node
\* id for the calls on a node (prepare, set_files, set_memory, propagate,
\* begin, go, end, evacuate) and a position in the phase sequence, from 0,
\* for pi_init / pi_done (the phase's progress sub-indicator) and free
\* (free_datastructures); fp_init / fp_done are the fractional root's.
\* ------------------------------------------------------------------------
Ev(op, n) == [op |-> op, n |-> n]

EvAll(op, ns) == [i \in 1..Len(ns) |-> Ev(op, ns[i])]

RECURSIVE Flatten(_)
Flatten(ss) == IF Len(ss) = 0 THEN <<>> ELSE Head(ss) \o Flatten(Tail(ss))

\* the calls of one method on the nodes of a topological order t, after
\* the calls acc made so far; ok = FALSE stands for not_a_dag_exception
CallInOrder(op, acc, t) ==
    IF ~t.ok THEN [ok |-> FALSE, log |-> acc.log]
    ELSE [ok |-> TRUE, log |-> acc.log \o EvAll(op, t.order)]

\* a variant that prepares the nodes of each graph as the graph lists them,
\* without sorting them topologically: C27 does not hold of it
RECURSIVE prepare_all_unsorted(_, _, _, _)
prepare_all_unsorted(nm, itemFlow, i, acc) ==
    IF i > Len(itemFlow) THEN acc
    ELSE prepare_all_unsorted(nm, itemFlow, i + 1,
            [ok |-> TRUE, log |-> acc.log \o EvAll("prepare", SortedSeq(itemFlow[i].nodes))])

\* runtime::prepare_all: the exception is thrown after the nodes of the
\* earlier phases were prepared
RECURSIVE prepare_all(_, _, _, _)
prepare_all(nm, itemFlow, i, acc) ==
    IF ~acc.ok \/ i > Len(itemFlow) THEN acc
    ELSE prepare_all(nm, itemFlow, i + 1,
            CallInOrder("prepare", acc, node_topological_order(nm, itemFlow[i])))

\* a variant that evacuates every node of the phase: C9 does not hold of it
evacuate_all_unmarked(nm, phase, evacuateWhenDone) == EvAll("evacuate", phase)

\* runtime::evacuate_all
evacuate_all(nm, phase, evacuateWhenDone) ==
    EvAll("evacuate",
          SelectSeq2(phase, LAMBDA n : n \in evacuateWhenDone /\ nm.canEvac[n]))

\* a variant that calls go() on every node of the phase: C8 does not hold
\* of it
go_initiators_everywhere(nm, phase) == EvAll("go", phase)

\* runtime::go_initiators
go_initiators(nm, phase) ==
    EvAll("go", SelectSeq2(phase, LAMBDA n : is_initiator(nm, n)))

\* begin_end::begin_end, begin and end
begin_end(nm, actorGraph) == node_topological_order(nm, actorGraph)

\* a variant of begin() that walks the order forwards: C6 does not hold of it
begin_end_begin_forwards(be) == EvAll("begin", be.order)

begin_end_begin(be) == EvAll("begin", Reverse(be.order))

\* a variant of end() that walks the order backwards: C7 does not hold of it
begin_end_end_backwards(be) == EvAll("end", Reverse(be.order))

begin_end_end(be) == EvAll("end", be.order)

\* a variant in which go_initiators does not set the state after go()
\* returned: C22 does not hold of it
RECURSIVE node_states_left_in_go(_, _)
node_states_left_in_go(events, n) ==
    IF events = <<>> THEN <<"STATE_FRESH">>
    ELSE LET e == events[Len(events)]
             before == node_states_left_in_go(SubSeq(events, 1, Len(events) - 1), n)
         IN  CASE e.n = n /\ e.op = "prepare" ->
                     before \o <<"STATE_IN_PREPARE", "STATE_AFTER_PREPARE">>
               [] e.n = n /\ e.op = "propagate" ->
                     before \o <<"STATE_IN_PROPAGATE", "STATE_AFTER_PROPAGATE">>
               [] e.n = n /\ e.op = "begin" ->
                     before \o <<"STATE_IN_BEGIN", "STATE_AFTER_BEGIN">>
               [] e.n = n /\ e.op = "go" ->
                     before \o <<"STATE_IN_GO">>
               [] e.n = n /\ e.op = "end" ->
                     before \o <<"STATE_IN_END", "STATE_AFTER_END">>
               [] OTHER -> before

\* node::set_state: the states node n is given, in order, by the calls of
\* events that returned.  prepare_all, propagate_all, begin_end::begin,
\* go_initiators and begin_end::end set one state before the call they make
\* on a node and one after it; a node starts in STATE_FRESH.
RECURSIVE node_states(_, _)
node_states(events, n) ==
    IF events = <<>> THEN <<"STATE_FRESH">>
    ELSE LET e == events[Len(events)]
             before == node_states(SubSeq(events, 1, Len(events) - 1), n)
         IN  CASE e.n = n /\ e.op = "prepare" ->
                     before \o <<"STATE_IN_PREPARE", "STATE_AFTER_PREPARE">>
               [] e.n = n /\ e.op = "propagate" ->
                     before \o <<"STATE_IN_PROPAGATE", "STATE_AFTER_PROPAGATE">>
               [] e.n = n /\ e.op = "begin" ->
                     before \o <<"STATE_IN_BEGIN", "STATE_AFTER_BEGIN">>
               [] e.n = n /\ e.op = "go" ->
                     before \o <<"STATE_IN_GO", "STATE_AFTER_BEGIN">>
               [] e.n = n /\ e.op = "end" ->
                     before \o <<"STATE_IN_END", "STATE_AFTER_END">>
               [] OTHER -> before

\* runtime::assign_files and reassign_files: every node of the phase is
\* told its share (resource_runtime::assign_usage)
reassign_files(phases, phase) == EvAll("set_files", phases[phase + 1])

\* runtime::assign_memory (its second loop) and reassign_memory
reassign_memory(phases, phase) == EvAll("set_memory", phases[phase + 1])

\* ------------------------------------------------------------------------
\* datastructure_runtime.  uses[k][i] is the datastructure map of the i-th
\* node of phase k - 1: name -> [min, max, priority].
\* ------------------------------------------------------------------------
\* std::numeric_limits<memory_size_type>::max(), above every amount here
Unlimited == 1000000

\* node::datastructure_info_t as register_datastructure_usage leaves it
DefaultUsage == [min |-> 0, max |-> Unlimited, priority |-> 1]

\* datastructure_runtime::datastructure_runtime: the largest minimum, the
\* smallest maximum and priority, the first and the last phase of every
\* datastructure; factor = <<>> stands for the largest double
datastructure_runtime(uses) ==
    [d \in UNION {UNION {DOMAIN uses[k][i] : i \in DOMAIN uses[k]} : k \in DOMAIN uses} |->
        LET \* the phases, from 1, that have a node using d
            phases == {k \in DOMAIN uses : \E i \in DOMAIN uses[k] : d \in DOMAIN uses[k][i]}
            \* what the nodes registered for d
            usages == UNION {{uses[k][i][d] : i \in {j \in DOMAIN uses[k] : d \in DOMAIN uses[k][j]}} :
                               k \in DOMAIN uses}
        IN  [min |-> -MinOf({-u.min : u \in usages}),
             max |-> MinOf({u.max : u \in usages}),
             priority |-> MinOf({u.priority : u \in usages}),
             left_most_phase |-> MinOf(phases) - 1,
             right_most_phase |-> -MinOf({-k : k \in phases}) - 1,
             factor |-> <<>>]]

\* datastructure_runtime::free_datastructures: the stored instances that
\* were reset so far
free_datastructures(drt, released, phase) ==
    released \cup {d \in DOMAIN drt : drt[d].right_most_phase = phase}

\* gocontext.  i counts from 0 as in the source; phaseProgress is the set of
\* phase positions whose sub-indicator the context holds (none or one);
\* released is the set of datastructures of the node map whose stored
\* instance was reset.
gocontext0 == [phases |-> <<>>, evacuateWhenDone |-> {}, itemFlow |-> <<>>, actor |-> <<>>,
               drt |-> <<>>, released |-> {},
               i |-> 0, fp |-> FALSE, phaseProgress |-> {}]

gi_fail(err, log) == [err |-> err, log |-> log, gc |-> gocontext0]

\* runtime::go_init, from its end to its start.
\* the rest of go_init once every node is prepared
gi_prepared(nm, hasTag, ph, itemFlow, actor, prep) ==
    IF ~prep.ok THEN gi_fail("NotADag", prep.log)
    ELSE [err |-> "",
          log |-> prep.log \o Flatten([k \in 1..Len(ph.phases) |-> reassign_files(ph.phases, k - 1)])
                           \o Flatten([k \in 1..Len(ph.phases) |->
                                          reassign_memory(ph.phases, k - 1)])
                  \o (IF hasTag THEN <<Ev("fp_init", 0)>> ELSE <<>>),
          gc |-> [phases |-> ph.phases, evacuateWhenDone |-> ph.evacuateWhenDone,
                  itemFlow |-> itemFlow, actor |-> actor,
                  drt |-> datastructure_runtime([k \in DOMAIN ph.phases |->
                             [i \in DOMAIN ph.phases[k] |-> nm.ds[ph.phases[k][i]]]]),
                  released |-> {},
                  i |-> 0, fp |-> hasTag, phaseProgress |-> {}]]

\* the rest of go_init once the item flow graphs are built
gi_graphs(nm, hasTag, ph, itemFlow) ==
    gi_prepared(nm, hasTag, ph, itemFlow,
                [i \in 1..Len(ph.phases) |-> get_graph(nm, ph.phases[i], FALSE)],
                prepare_all(nm, itemFlow, 1, [ok |-> TRUE, log |-> <<>>]))

\* the rest of go_init once get_phases returned or threw
gi_phases(nm, hasTag, ph) ==
    IF ph.err # "" THEN gi_fail(ph.err, <<>>)
    ELSE gi_graphs(nm, hasTag, ph, get_item_flow_graphs(nm, ph.phases))

\* the rest of go_init once the nodes are partitioned into phases
gi_partitioned(nm, hasTag, phaseMap) ==
    gi_phases(nm, hasTag, get_phases(nm, phaseMap, get_phase_graph(nm, phaseMap)))

\* runtime::go_init; hasTag: file and function are given
go_init(nm, hasTag) ==
    IF nm.n = 0 THEN gi_fail("EmptyPipeline", <<>>)
    ELSE gi_partitioned(nm, hasTag, get_phase_map(nm))

\* phase_progress_indicator::operator=: done() on the indicator held so far
pi_assign(gc) == EvAll("pi_done", SortedSeq(gc.phaseProgress))

\* A node call that throws: fault = [op, n] is the call op of node n, and
\* NoFault is a run in which every node call returns.
NoFault == Ev("none", 0)

Raised(events, fault) == \E i \in DOMAIN events : events[i] = fault

\* the calls of the sequence that are made: all of them up to the first
\* that throws
MadeCalls(events, fault) ==
    IF Raised(events, fault)
    THEN SubSeq(events, 1, MinOf({i \in DOMAIN events : events[i] = fault}))
    ELSE events

\* the for loop of runtime::go_until; node = 0 stands for nullptr.  gu_loop
\* is the head of an iteration, up to propagate_all; gu_propagated goes on
\* up to the construction of beginEnd, gu_begin to the end of the iteration.
RECURSIVE gu_loop(_, _, _, _, _), gu_propagated(_, _, _, _, _, _), gu_begin(_, _, _, _, _, _)
gu_loop(nm, gc, node, fault, log) ==
    IF gc.i >= Len(gc.phases)
    THEN [err |-> "", gc |-> [gc EXCEPT !.i = @ + 1], log |-> log]
    ELSE gu_propagated(nm, gc, node, fault,
            log \o (IF gc.i > 0
                    THEN evacuate_all(nm, gc.phases[gc.i], gc.evacuateWhenDone)
                    ELSE <<>>),
            CallInOrder("propagate", [ok |-> TRUE, log |-> <<>>],
                        node_topological_order(nm, gc.itemFlow[gc.i + 1])))

gu_propagated(nm, gc, node, fault, log, prop) ==
    IF ~prop.ok THEN [err |-> "NotADag", gc |-> gc, log |-> log]
    ELSE IF Raised(prop.log, fault)
    THEN [err |-> "NodeException", gc |-> gc, log |-> log \o MadeCalls(prop.log, fault)]
    ELSE gu_begin(nm, [gc EXCEPT !.phaseProgress = {gc.i}], node, fault,
            log \o prop.log
                \o reassign_files(gc.phases, gc.i)
                \o reassign_memory(gc.phases, gc.i)
                \o <<Ev("pi_init", gc.i)>> \o pi_assign(gc),
            begin_end(nm, gc.actor[gc.i + 1]))

\* a variant that stops at the node's phase only after go() was called on
\* the initiators of that phase: C20 does not hold of it
gu_begin_go_at_node(nm, gc, node, fault, log, beginEnd) ==
    IF ~beginEnd.ok THEN [err |-> "NotADag", gc |-> gc, log |-> log]
    ELSE IF node \in Range(gc.phases[gc.i + 1])
    THEN [err |-> "", gc |-> [gc EXCEPT !.i = @ + 1],
          log |-> log \o begin_end_begin(beginEnd) \o go_initiators(nm, gc.phases[gc.i + 1])]
    ELSE gu_loop(nm, [gc EXCEPT !.i = @ + 1, !.phaseProgress = {},
                               !.released = free_datastructures(gc.drt, @, gc.i)],
            node, fault,
            log \o begin_end_begin(beginEnd)
                \o go_initiators(nm, gc.phases[gc.i + 1])
                \o begin_end_end(beginEnd)
                \o <<Ev("free", gc.i)>> \o pi_assign(gc))

gu_begin(nm, gc, node, fault, log, beginEnd) ==
    IF ~beginEnd.ok THEN [err |-> "NotADag", gc |-> gc, log |-> log]
    ELSE IF Raised(begin_end_begin(beginEnd), fault)
    THEN [err |-> "NodeException", gc |-> gc,
          log |-> log \o MadeCalls(begin_end_begin(beginEnd), fault)]
    ELSE IF node \in Range(gc.phases[gc.i + 1])
    THEN [err |-> "", gc |-> [gc EXCEPT !.i = @ + 1],
          log |-> log \o begin_end_begin(beginEnd)]
    ELSE IF Raised(go_initiators(nm, gc.phases[gc.i + 1]), fault)
    THEN [err |-> "NodeException", gc |-> gc,
          log |-> log \o begin_end_begin(beginEnd)
                      \o MadeCalls(go_initiators(nm, gc.phases[gc.i + 1]), fault)]
    ELSE gu_loop(nm, [gc EXCEPT !.i = @ + 1, !.phaseProgress = {},
                               !.released = free_datastructures(gc.drt, @, gc.i)],
            node, fault,
            log \o begin_end_begin(beginEnd)
                \o go_initiators(nm, gc.phases[gc.i + 1])
                \o begin_end_end(beginEnd)
                \o <<Ev("free", gc.i)>> \o pi_assign(gc))

\* "beginEnd.end()" on the phase a previous call stopped in, then the loop
gu_end(nm, gc, node, fault, beginEnd) ==
    IF ~beginEnd.ok THEN [err |-> "NotADag", gc |-> gc, log |-> <<>>]
    ELSE gu_loop(nm, gc, node, fault, begin_end_end(beginEnd))

\* runtime::go_until
go_until(nm, gc, node, fault) ==
    IF gc.i > Len(gc.phases) THEN [err |-> "", gc |-> gc, log |-> <<>>]
    ELSE IF gc.i = 0 THEN gu_loop(nm, gc, node, fault, <<>>)
    ELSE gu_end(nm, gc, node, fault, begin_end(nm, gc.actor[gc.i]))

\* ~gocontext when no exception is in flight: ~phase_progress_indicator,
\* then ~progress_indicators
gocontext_destroy(gc) ==
    pi_assign(gc) \o (IF gc.fp THEN <<Ev("fp_done", 0)>> ELSE <<>>)

\* a variant whose destructors call done() whether or not an exception
\* unwinds: C11 does not hold of it
go_return_closing(gi, r) ==
    [err |-> r.err, log |-> gi.log \o r.log \o gocontext_destroy(r.gc),
     gc |-> r.gc, init |-> Len(gi.log)]

\* ~gocontext at the end of go(): nothing is closed when an exception unwinds
go_return(gi, r) ==
    [err |-> r.err,
     log |-> gi.log \o r.log \o (IF r.err = "" THEN gocontext_destroy(r.gc) ELSE <<>>),
     gc |-> r.gc, init |-> Len(gi.log)]

\* a variant that looks for an initiator in the first phase only: C32 does
\* not hold of it
go_initialised_first_phase_only(nm, gi, fault) ==
    IF gi.err # "" THEN [err |-> gi.err, log |-> gi.log, gc |-> gi.gc, init |-> Len(gi.log)]
    ELSE IF ~ensure_initiators(nm, SubSeq(gi.gc.phases, 1, 1))
    THEN [err |-> "NoInitiatorNode", log |-> gi.log, gc |-> gi.gc, init |-> Len(gi.log)]
    ELSE go_return(gi, go_until(nm, gi.gc, 0, fault))

\* the rest of go() once go_init returned or threw
go_initialised(nm, gi, fault) ==
    IF gi.err # "" THEN [err |-> gi.err, log |-> gi.log, gc |-> gi.gc, init |-> Len(gi.log)]
    ELSE IF ~ensure_initiators(nm, gi.gc.phases)
    THEN [err |-> "NoInitiatorNode", log |-> gi.log, gc |-> gi.gc, init |-> Len(gi.log)]
    ELSE go_return(gi, go_until(nm, gi.gc, 0, fault))

\* ------------------------------------------------------------------------
\* Resource apportionment: resource_runtime, the amounts of
\* datastructure_runtime, get_files_factor, get_memory_factor, assign_files
\* and assign_memory.  The budgets, minimums, maximums, fractions and
\* priorities are whole numbers.  The doubles c_lo, c_hi and c of the two
\* searches are whole multiples of 2^-20, the width at which the binary
\* search stops (2^-20 <= 1e-6 < 2^-19), and are kept as the multiple m.  A
\* factor budget * c / fraction_sum is kept as [b, m, F], the rational
\* b * m / (F * Scale).
\* ------------------------------------------------------------------------
Scale == 1048576

\* static_cast<memory_size_type>(factor * x) for a fraction or priority x:
\* b * x * m / (F * Scale) rounded down, the product taken in two halves of
\* m to stay inside the integers
Truncated(factor, x) ==
    ((factor.b * x * (factor.m \div 1024)
        + (factor.b * x * (factor.m % 1024)) \div 1024) \div 1024) \div factor.F

\* a clamp that never raises to the minimum
clamp_above(lo, hi, t) ==
    IF t > hi THEN hi
    ELSE t

\* resource_runtime::clamp and datastructure_runtime::clamp of a double v
\* given by its truncation t: v < lo iff t < lo, and v > hi gives hi as
\* does t = hi
clamp(lo, hi, t) ==
    IF t < lo THEN lo
    ELSE IF t > hi THEN hi
    ELSE t

\* the sum of the values f[x] over the keys x in S
RECURSIVE SumOver(_, _)
SumOver(f, S) ==
    IF S = {} THEN 0
    ELSE SumOver(f, S \ {MinOf(S)}) + f[MinOf(S)]

\* resource_runtime::sum_minimum_usage of the nodes of a phase
sum_minimum_usage(nodes) == SumOver([i \in DOMAIN nodes |-> nodes[i].min], DOMAIN nodes)

\* resource_runtime::sum_fraction
sum_fraction(nodes) == SumOver([i \in DOMAIN nodes |-> nodes[i].fraction], DOMAIN nodes)

\* resource_runtime::assign_usage: what set_usage tells every node, its
\* get_assigned_usage, clamp(minimum_usage, maximum_usage, factor * fraction)
assign_usage(nodes, factor) ==
    [i \in DOMAIN nodes |->
        clamp(nodes[i].min, nodes[i].max, Truncated(factor, nodes[i].fraction))]

\* resource_runtime::sum_assigned_usage: the sum of get_assigned_usage over
\* the nodes
sum_assigned_usage(nodes, factor) ==
    SumOver(assign_usage(nodes, factor), DOMAIN nodes)

\* the datastructures whose range of phases holds the phase (from 0)
drt_alive(drt, phase) ==
    {d \in DOMAIN drt : drt[d].left_most_phase <= phase /\ phase <= drt[d].right_most_phase}

\* the amounts that datastructure_runtime::sum_assigned_memory adds up for a
\* phase: under the factor, or (the overload without a factor, used when
\* the datastructures are locked) every datastructure under its own factor
drt_amounts(drt, factor, phase, locked) ==
    [d \in drt_alive(drt, phase) |->
        clamp(drt[d].min, drt[d].max,
              Truncated(IF locked THEN drt[d].factor ELSE factor, drt[d].priority))]

\* a minimize_factor that keeps the factor of the last phase
minimize_factor_overwrite(drt, factor, phase) ==
    [d \in DOMAIN drt |->
        IF d \in drt_alive(drt, phase)
        THEN [drt[d] EXCEPT !.factor = factor]
        ELSE drt[d]]

\* datastructure_runtime::minimize_factor: std::min of the factor of the
\* datastructure and the factor of the phase, two factors of one budget;
\* <<>> is the largest double
minimize_factor(drt, factor, phase) ==
    [d \in DOMAIN drt |->
        IF d \in drt_alive(drt, phase)
        THEN [drt[d] EXCEPT !.factor = IF @ = <<>> THEN factor
                                       ELSE IF factor.m * @.F < @.m * factor.F THEN factor
                                       ELSE @]
        ELSE drt[d]]

\* memoryAssigned (filesAssigned) of both searches for c = m / Scale; s
\* holds the arguments of get_memory_factor and fraction_sum
memoryAssigned(s, m) ==
    sum_assigned_usage(s.mrt, [b |-> s.memory, m |-> m, F |-> s.fraction_sum])
    + SumOver(drt_amounts(s.drt, [b |-> s.memory, m |-> m, F |-> s.fraction_sum],
                          s.phase, s.locked),
              drt_alive(s.drt, s.phase))

\* the exponential search: c_hi when the loop breaks
RECURSIVE exponential_search(_, _, _)
exponential_search(s, c_hi, oldMemoryAssigned) ==
    IF memoryAssigned(s, c_hi) \in (0..(s.memory - 1)) \ {oldMemoryAssigned}
    THEN exponential_search(s, 2 * c_hi, memoryAssigned(s, c_hi))
    ELSE c_hi

\* the binary search: c_lo when c_hi - c_lo is no longer above 1e-6
RECURSIVE binary_search(_, _, _)
binary_search(s, c_lo, c_hi) ==
    IF c_hi - c_lo <= 1 THEN c_lo
    ELSE IF memoryAssigned(s, c_lo + (c_hi - c_lo) \div 2) > s.memory
    THEN binary_search(s, c_lo, c_lo + (c_hi - c_lo) \div 2)
    ELSE binary_search(s, c_lo + (c_hi - c_lo) \div 2, c_hi)

\* searches that return c_hi of the exponential search
factor_search_upper(s) ==
    IF s.fraction_sum = 0 THEN [b |-> s.memory, m |-> 0, F |-> 1]
    ELSE [b |-> s.memory,
          m |-> exponential_search(s, Scale, 0),
          F |-> s.fraction_sum]

\* the fraction_sum test and the two searches of get_memory_factor and of
\* get_files_factor, which are the same text
factor_search(s) ==
    IF s.fraction_sum = 0 THEN [b |-> s.memory, m |-> 0, F |-> 1]
    ELSE [b |-> s.memory,
          m |-> binary_search(s, 0, exponential_search(s, Scale, 0)),
          F |-> s.fraction_sum]

\* runtime::get_memory_factor, with datastructure_runtime::sum_minimum_memory
\* and datastructure_runtime::sum_fraction
get_memory_factor(memory, phase, mrt, drt, datastructures_locked) ==
    IF sum_minimum_usage(mrt)
       + SumOver([d \in DOMAIN drt |-> drt[d].min], drt_alive(drt, phase)) > memory
    THEN [b |-> memory, m |-> 0, F |-> 1]
    ELSE factor_search([memory |-> memory, phase |-> phase, mrt |-> mrt, drt |-> drt,
                        locked |-> datastructures_locked,
                        fraction_sum |-> sum_fraction(mrt)
                            + SumOver([d \in DOMAIN drt |-> drt[d].priority],
                                      drt_alive(drt, phase))])

\* runtime::get_files_factor: the same searches over the nodes alone
get_files_factor(files, frt) ==
    IF sum_minimum_usage(frt) > files
    THEN [b |-> files, m |-> 0, F |-> 1]
    ELSE factor_search([memory |-> files, phase |-> 0, mrt |-> frt, drt |-> <<>>,
                        locked |-> FALSE, fraction_sum |-> sum_fraction(frt)])

\* the first loop of runtime::assign_memory from phase k on: the
\* datastructures drt after drt.minimize_factor(c, phase) for every phase,
\* and the factor c of every phase in first
RECURSIVE am_first_pass(_, _, _, _, _)
am_first_pass(phases, memory, drt, first, k) ==
    IF k > Len(phases) THEN [drt |-> drt, first |-> first]
    ELSE LET c == get_memory_factor(memory, k - 1, phases[k], drt, FALSE)
         IN am_first_pass(phases, memory, minimize_factor(drt, c, k - 1), Append(first, c), k + 1)

\* runtime::assign_memory: r is what the first loop leaves; the second loop
\* gives every node its memory, the locked search of every phase counts the
\* amounts of the datastructures, and drt.assign_memory() stores the
\* amounts in the node map
memory_assigned(phases, memory, r) ==
    [first |-> r.first,
     drt |-> r.drt,
     assigned |-> [k \in DOMAIN phases |->
                     assign_usage(phases[k], get_memory_factor(memory, k - 1, phases[k], r.drt, TRUE))],
     counted |-> [k \in DOMAIN phases |->
                    drt_amounts(r.drt, [b |-> memory, m |-> 0, F |-> 1], k - 1, TRUE)],
     stored |-> [d \in DOMAIN r.drt |->
                   clamp(r.drt[d].min, r.drt[d].max,
                         Truncated(r.drt[d].factor, r.drt[d].priority))]]

\* ------------------------------------------------------------------------
\* The state: the node map under construction, then one run of it, started
\* either by go() or by go_init() followed by go_until() calls.
\* ------------------------------------------------------------------------
VARIABLES
    nodeMap,    \* [n, canEvac, addr, rels, ds]
    pc,         \* "build", "ctx" (a context from go_init), "done", "failed"
    entry,      \* "none", "go" or "go_init"
    gc,         \* the gocontext
    log,        \* the events so far, each stamped with the call that made it
    err,        \* the error of the last call, "" when it returned
    calls,      \* the number of go_until calls made on the context
    res,        \* the apportionment of one resource: its input and its outcome
    gr,         \* a graph, and what one operation on it gave
    fb          \* a file_base, its block buffers and its streams

vars == <<nodeMap, pc, entry, gc, log, err, calls, res, gr, fb>>

\* ------------------------------------------------------------------------
\* The apportionment of one resource over the phases of a pipeline.  The
\* phases, what their nodes declare for the resource and the budget are
\* given; assign_files or assign_memory is applied to them.
\* ------------------------------------------------------------------------

\* no resource is being assigned
NoResources ==
    [type |-> "NO_RESOURCE", budget |-> 0, phases |-> <<>>, done |-> FALSE,
     assigned |-> <<>>, first |-> <<>>, drt |-> <<>>, counted |-> <<>>, stored |-> <<>>]

\* no graph is being looked at
NoGraph == [sg |-> sg_new, op |-> "none", result |-> <<>>]

\* std::numeric_limits<stream_size_type>::max(), the number of the empty
\* block and the value of m_nextBlock when no block was asked for; written
\* as the 64-bit number it is congruent to, so that adding 1 gives 0
stream_size_max == -1

\* the static empty block file_base::m_emptyBlock, and a null block_t *
m_emptyBlock == 0

null_block == -2

\* no file is being looked at: the file_base as its constructor leaves it
NoFile ==
    [size |-> 0, blockItems |-> 1, closed |-> FALSE,
     blocks |-> (m_emptyBlock :> [number |-> stream_size_max, size |-> 0, usage |-> 0]),
     heap |-> {}, m_free |-> <<>>, m_used |-> <<>>, m_block |-> <<>>,
     last |-> [op |-> "none", s |-> 0, block |-> stream_size_max, err |-> ""]]

\* call 0 is go_init, call k the k-th go_until; go() makes both call 0 and
\* call 1
Stamp(events, call) == [i \in 1..Len(events) |-> [op |-> events[i].op, n |-> events[i].n, call |-> call]]

Init ==
    /\ nodeMap = [n |-> 0, canEvac |-> <<>>, addr |-> <<>>, rels |-> <<>>, ds |-> <<>>]
    /\ pc = "build"
    /\ entry = "none"
    /\ gc = gocontext0
    /\ log = <<>>
    /\ err = ""
    /\ calls = 0
    /\ res = NoResources
    /\ gr = NoGraph
    /\ fb = NoFile

\* a node is created; its object lies at address rank a among the nodes.
\* The objects lie in memory in creation order or in the reverse of it.
AddNode(a) ==
    /\ pc = "build"
    /\ nodeMap.n < MaxNodes
    /\ nodeMap.n >= 2 => ((a = 1) <=> (nodeMap.addr[1] > nodeMap.addr[2]))
    /\ nodeMap' = [n |-> nodeMap.n + 1,
                   canEvac |-> Append(nodeMap.canEvac, TRUE),
                   addr |-> Append([i \in 1..nodeMap.n |->
                                       IF nodeMap.addr[i] >= a THEN nodeMap.addr[i] + 1
                                       ELSE nodeMap.addr[i]], a),
                   rels |-> nodeMap.rels,
                   ds |-> Append(nodeMap.ds, <<>>)]
    /\ UNCHANGED <<pc, entry, gc, log, err, calls, res, gr, fb>>

\* the position of a relation kind in the declaration order of one node
RelationRank(rel) ==
    CASE rel = "pushes" -> 1
      [] rel = "pulls" -> 2
      [] rel = "depends" -> 3
      [] rel = "no_forward_depends" -> 4
      [] rel = "memory_share_depends" -> 5

\* node_map::add_relation; the relations and the datastructure
\* registrations of the pipeline are at most MaxRels together, and the
\* relations of one node are declared once each, by target and kind
AddRelation(from, to, rel) ==
    /\ pc = "build"
    /\ Len(nodeMap.rels) + Cardinality({x \in (1..nodeMap.n) \X (1..MaxDatastructures) :
                                              x[2] \in DOMAIN nodeMap.ds[x[1]]}) < MaxRels
    /\ from # to
    /\ \A i \in DOMAIN nodeMap.rels :
          nodeMap.rels[i].from = from =>
              \/ nodeMap.rels[i].to < to
              \/ /\ nodeMap.rels[i].to = to
                 /\ RelationRank(nodeMap.rels[i].rel) < RelationRank(rel)
    /\ nodeMap' = [nodeMap EXCEPT !.rels = node_map_add_relation(@, from, to, rel)]
    /\ UNCHANGED <<pc, entry, gc, log, err, calls, res, gr, fb>>

\* node n is one whose can_evacuate() answers false.  The answer is only
\* ever asked of a node that some memory_share_depends relation points to.
CannotEvacuate(n) ==
    /\ pc = "build"
    /\ nodeMap.canEvac[n]
    /\ \E i \in DOMAIN nodeMap.rels :
          nodeMap.rels[i].to = n /\ nodeMap.rels[i].rel = "memory_share_depends"
    /\ nodeMap' = [nodeMap EXCEPT !.canEvac[n] = FALSE]
    /\ UNCHANGED <<pc, entry, gc, log, err, calls, res, gr, fb>>

\* node::register_datastructure_usage: node n uses datastructure d
RegisterDatastructure(n, d) ==
    /\ pc = "build"
    /\ Len(nodeMap.rels) + Cardinality({x \in (1..nodeMap.n) \X (1..MaxDatastructures) :
                                              x[2] \in DOMAIN nodeMap.ds[x[1]]}) < MaxRels
    /\ d \notin DOMAIN nodeMap.ds[n]
    /\ nodeMap' = [nodeMap EXCEPT !.ds[n] = (d :> DefaultUsage) @@ @]
    /\ UNCHANGED <<pc, entry, gc, log, err, calls, res, gr, fb>>

\* runtime::go_init, the entry of a run that is driven by go_until calls
GoInit(hasTag) ==
    /\ pc = "build"
    /\ \E r \in {go_init(nodeMap, hasTag)} :
          /\ pc' = IF r.err = "" THEN "ctx" ELSE "failed"
          /\ gc' = r.gc
          /\ log' = Stamp(r.log, 0)
          /\ err' = r.err
    /\ entry' = "go_init"
    /\ UNCHANGED <<nodeMap, calls, res, gr, fb>>

\* runtime::go_until on the context; node 0 stands for nullptr
GoUntil(node) ==
    /\ pc = "ctx"
    /\ calls < MaxCalls
    /\ \E r \in {go_until(nodeMap, gc, node, NoFault)} :
          /\ gc' = r.gc
          /\ log' = log \o Stamp(r.log, calls + 1)
          /\ err' = r.err
    /\ calls' = calls + 1
    /\ UNCHANGED <<nodeMap, pc, entry, res, gr, fb>>

\* runtime::go, that is go(nodeMap, hasTag, fault): every node call returns,
\* or the call fault (propagate, begin or go of some node) throws if it is
\* made
Go(hasTag) ==
    /\ pc = "build"
    /\ \E gi \in {go_init(nodeMap, hasTag)} :
          \E fault \in {NoFault} \cup {Ev(op, n) : op \in {"propagate", "begin", "go"},
                                                     n \in 1..nodeMap.n} :
              \E r \in {go_initialised(nodeMap, gi, fault)} :
                  /\ pc' = IF r.err = "" THEN "done" ELSE "failed"
                  /\ gc' = r.gc
                  /\ log' = Stamp(SubSeq(r.log, 1, r.init), 0)
                            \o Stamp(SubSeq(r.log, r.init + 1, Len(r.log)), 1)
                  /\ err' = r.err
    /\ entry' = "go"
    /\ UNCHANGED <<nodeMap, calls, res, gr, fb>>

Next ==
    \/ \E a \in {1, nodeMap.n + 1} : AddNode(a)
    \/ \E from, to \in 1..nodeMap.n, rel \in {"pushes", "pulls", "depends", "no_forward_depends",
                                                  "memory_share_depends"} :
          AddRelation(from, to, rel)
    \/ \E n \in 1..nodeMap.n : CannotEvacuate(n)
    \/ \E n \in 1..nodeMap.n, d \in 1..MaxDatastructures : RegisterDatastructure(n, d)
    \/ \E hasTag \in {TRUE} : GoInit(hasTag)
    \/ \E node \in 0..nodeMap.n : GoUntil(node)
    \/ \E hasTag \in BOOLEAN : Go(hasTag)

Spec == Init /\ [][Next]_vars

\* the apportionment of one resource over given phases.  A node declares
\* (minimum, maximum, fraction) for the resource and, for MEMORY, what it
\* registers for the datastructures it uses; the nodes are in the order of
\* their phases, and phaseOf numbers the phases from 1
ResInit ==
    /\ nodeMap = [n |-> 0, canEvac |-> <<>>, addr |-> <<>>, rels |-> <<>>, ds |-> <<>>]
    /\ pc = "build"
    /\ entry = "none"
    /\ gc = gocontext0
    /\ log = <<>>
    /\ err = ""
    /\ calls = 0
    /\ gr = NoGraph
    /\ fb = NoFile
    /\ \E type \in {"FILES", "MEMORY"}, budget \in {100, 800}, n \in 1..MaxResNodes :
          \E nodes \in [1..n ->
                  {[min |-> p[1], max |-> p[2], fraction |-> p[3], ds |-> ds] :
                      p \in {<<100, 1000, 1>>, <<200, 400, 3>>, <<0, 10, 3>>,
                             <<60, 1000, 1>>, <<0, Unlimited, 1>>, <<50, 50, 0>>},
                      ds \in UNION {[S -> {DefaultUsage,
                                           [min |-> 150, max |-> 300, priority |-> 2],
                                           [min |-> 0, max |-> 100, priority |-> 1]}] :
                                       S \in IF type = "MEMORY"
                                             THEN SUBSET (1..MaxDatastructures)
                                             ELSE {{}}}}],
             phaseOf \in [1..n -> 1..n] :
              /\ phaseOf[1] = 1
              /\ \A i \in 1..(n - 1) : phaseOf[i + 1] - phaseOf[i] \in {0, 1}
              /\ res = [NoResources EXCEPT
                          !.type = type, !.budget = budget,
                          !.phases = [k \in 1..phaseOf[n] |->
                              SubSeq(nodes,
                                     MinOf({i \in 1..n : phaseOf[i] = k}),
                                     -MinOf({-i : i \in {j \in 1..n : phaseOf[j] = k}}))]]

\* runtime::assign_files on the phases
AssignFiles ==
    /\ res.type = "FILES"
    /\ ~res.done
    /\ res' = [res EXCEPT !.done = TRUE,
                          !.assigned = [k \in DOMAIN res.phases |->
                              assign_usage(res.phases[k],
                                           get_files_factor(res.budget, res.phases[k]))]]
    /\ UNCHANGED <<nodeMap, pc, entry, gc, log, err, calls, gr, fb>>

\* runtime::assign_memory on the phases and the datastructure_runtime built
\* from them
AssignMemory ==
    /\ res.type = "MEMORY"
    /\ ~res.done
    /\ \E r \in {memory_assigned(res.phases, res.budget,
                     am_first_pass(res.phases, res.budget,
                         datastructure_runtime([k \in DOMAIN res.phases |->
                             [i \in DOMAIN res.phases[k] |-> res.phases[k][i].ds]]),
                         <<>>, 1))} :
          res' = [res EXCEPT !.done = TRUE, !.assigned = r.assigned, !.first = r.first,
                             !.drt = r.drt, !.counted = r.counted, !.stored = r.stored]
    /\ UNCHANGED <<nodeMap, pc, entry, gc, log, err, calls, gr, fb>>

ResSpec == ResInit /\ [][AssignFiles \/ AssignMemory]_vars

\* ------------------------------------------------------------------------
\* The graph operations on given graphs.  A graph is built by add_node on
\* the nodes 1..n and then by add_edge calls, each naming two of the nodes
\* (the same node twice, or the same pair again, included) and saying
\* whether the edge is satisfiable; one operation is applied to it.
\* ------------------------------------------------------------------------
GraphInit ==
    /\ nodeMap = [n |-> 0, canEvac |-> <<>>, addr |-> <<>>, rels |-> <<>>, ds |-> <<>>]
    /\ pc = "build"
    /\ entry = "none"
    /\ gc = gocontext0
    /\ log = <<>>
    /\ err = ""
    /\ calls = 0
    /\ res = NoResources
    /\ fb = NoFile
    /\ \E n \in 0..MaxGraphNodes, k \in 0..MaxGraphEdges :
          \E es \in [1..k -> (1..n) \X (1..n) \X BOOLEAN] :
              LET RECURSIVE built(_)
                  built(i) == IF i = 0 THEN sg_add_nodes(sg_new, [v \in 1..n |-> v], 1)
                              ELSE sg_add_edge(built(i - 1), es[i][1], es[i][2], es[i][3])
              IN gr = [NoGraph EXCEPT !.sg = built(k)]

\* graph::topological_order on the graph
TopologicalOrder ==
    /\ gr.op = "none"
    /\ gr' = [gr EXCEPT !.op = "topological_order",
                        !.result = graph_topological_order(gr.sg.g)]
    /\ UNCHANGED <<nodeMap, pc, entry, gc, log, err, calls, res, fb>>

\* graph::strongly_connected_components on the graph
StronglyConnectedComponents ==
    /\ gr.op = "none"
    /\ gr' = [gr EXCEPT !.op = "strongly_connected_components",
                        !.result = graph_strongly_connected_components(gr.sg.g)]
    /\ UNCHANGED <<nodeMap, pc, entry, gc, log, err, calls, res, fb>>

\* satisfiable_graph::preprocess on the graph
Preprocess ==
    /\ gr.op = "none"
    /\ gr' = [gr EXCEPT !.op = "preprocess", !.result = sg_preprocess(gr.sg)]
    /\ UNCHANGED <<nodeMap, pc, entry, gc, log, err, calls, res, fb>>

\* satisfiable_graph::topological_order(order, strategy) on the graph, then
\* satisfied_in_order(order) if it returned.  The first call preprocesses
\* the graph itself; the state keeps the graph as it was given.
SatisfiableOrder(strategy) ==
    /\ gr.op = "none"
    /\ \E r \in {sg_topological_order(gr.sg, strategy)} :
          gr' = [gr EXCEPT !.op = strategy,
                           !.result = [err |-> r.err, order |-> r.order,
                                       satisfied |-> IF r.err # "" THEN 0
                                                     ELSE sg_satisfied_in_order(
                                                              sg_preprocess(gr.sg).sg, r.order)]]
    /\ UNCHANGED <<nodeMap, pc, entry, gc, log, err, calls, res, fb>>

GraphSpec ==
    GraphInit /\ [][\/ TopologicalOrder
                    \/ StronglyConnectedComponents
                    \/ Preprocess
                    \/ \E strategy \in {"BRUTEFORCE_ORDER", "BRUTEFORCE_SATISFIABLE",
                                        "GREEDY", "AUTO"} :
                          SatisfiableOrder(strategy)]_vars

\* ------------------------------------------------------------------------
\* go_init on pipelines of three phases of two nodes each: node 1 pushes to
\* node 2, node 3 to node 4, node 5 to node 6.  Between nodes of different
\* phases up to MaxPhaseRels depends or memory_share_depends relations are
\* declared; nodes that such a memory_share_depends relation points to may
\* be unable to evacuate; the node objects lie in memory in creation order
\* or in the reverse of it.
\* ------------------------------------------------------------------------
PhasesInit ==
    /\ pc = "build"
    /\ entry = "none"
    /\ gc = gocontext0
    /\ log = <<>>
    /\ err = ""
    /\ calls = 0
    /\ res = NoResources
    /\ gr = NoGraph
    /\ fb = NoFile
    /\ \E between \in {Range(s) \cap {r \in [from : 1..6, to : 1..6,
                                                rel : {"depends", "memory_share_depends"}] :
                                             (r.from + 1) \div 2 # (r.to + 1) \div 2} :
                           s \in [1..MaxPhaseRels ->
                                     [from : 1..6, to : 1..6,
                                      rel : {"depends", "memory_share_depends"}]]},
          reversed \in BOOLEAN :
          \E fixed \in SUBSET {r.to : r \in {x \in between : x.rel = "memory_share_depends"}} :
              LET declared == between \cup {[from |-> 2 * k - 1, to |-> 2 * k, rel |-> "pushes"] :
                                                k \in 1..3}
                  RECURSIVE add(_, _)
                  add(rels, S) ==
                      IF S = {} THEN rels
                      ELSE LET r == CHOOSE x \in S : \A y \in S :
                                        \/ x.from < y.from
                                        \/ x.from = y.from /\ x.to < y.to
                                        \/ x.from = y.from /\ x.to = y.to
                                           /\ RelationRank(x.rel) <= RelationRank(y.rel)
                           IN add(node_map_add_relation(rels, r.from, r.to, r.rel), S \ {r})
              IN nodeMap = [n |-> 6,
                            canEvac |-> [i \in 1..6 |-> i \notin fixed],
                            addr |-> [i \in 1..6 |-> IF reversed THEN 7 - i ELSE i],
                            rels |-> add(<<>>, declared),
                            ds |-> [i \in 1..6 |-> <<>>]]

\* runtime::inverse_permutation, a static function, on a sequence f of
\* numbers that is no longer than the phases of the pipeline are many
InversePermutation ==
    /\ pc = "ctx"
    /\ gr.op = "none"
    /\ \E n \in 0..Len(gc.phases) :
          \E f \in [1..n -> 0..n] :
              gr' = [gr EXCEPT !.op = "inverse_permutation",
                               !.result = [f |-> f, inv |-> inverse_permutation(f)]]
    /\ UNCHANGED <<nodeMap, pc, entry, gc, log, err, calls, res, fb>>

PhasesSpec ==
    PhasesInit /\ [][(\E hasTag \in {TRUE} : GoInit(hasTag)) \/ InversePermutation]_vars

\* ------------------------------------------------------------------------
\* file_base (file_base.cpp): an open file of fb.size items in blocks of
\* fb.blockItems items, read through streams.  blocks[b] is the buffer b
\* with its number, size and usage, heap the buffers that are allocated,
\* m_free and m_used list them front first, m_block[s] is what stream s
\* points to, last is the last operation, the block it asked for and the
\* exception it threw ("assert" when an assertion failed, which ends the
\* program).  The sizes are far below 2^64, so the 64-bit products and
\* sums of block numbers and sizes are exact.
\* ------------------------------------------------------------------------
MaxStreams == 3

MaxFileSize == 3

MaxBlockItems == 2

MaxBlock == 4

\* a get_block_check that also refuses the block that starts at the end
get_block_check_at_end(f, block) == block * f.blockItems >= f.size

\* file_base_crtp::get_block_check: end_of_stream_exception is thrown
get_block_check(f, block) == block * f.blockItems > f.size

\* file_base_crtp::read_block: b.size
read_block(f, block) ==
    IF f.blockItems + block * f.blockItems > f.size
    THEN f.size - block * f.blockItems
    ELSE f.blockItems

\* a get_block that takes a free buffer without looking for the block
\* among the used ones
get_block_unshared(f, block, short) ==
    IF get_block_check(f, block)
    THEN [f |-> f, b |-> null_block, err |-> "end_of_stream_exception"]
    ELSE IF f.m_free = <<>>
    THEN [f |-> f, b |-> null_block, err |-> "assert"]
    ELSE IF read_block(f, block) > 0 /\ short
    THEN [f |-> [f EXCEPT !.blocks[Head(f.m_free)] =
                              [number |-> block, size |-> read_block(f, block), usage |-> 0]],
          b |-> null_block, err |-> "io_exception"]
    ELSE [f |-> [f EXCEPT !.blocks[Head(f.m_free)] =
                              [number |-> block, size |-> read_block(f, block), usage |-> 1],
                          !.m_free = Tail(@),
                          !.m_used = <<Head(f.m_free)>> \o @],
          b |-> Head(f.m_free), err |-> ""]

\* file_base::get_block: the file after the call, the buffer returned and
\* the exception thrown; short: the file accessor reads fewer items than
\* b.size.  A block found in m_used is shared; otherwise the front of
\* m_free is filled by read_block and, if that went well, moved to m_used
get_block(f, block, short) ==
    IF get_block_check(f, block)
    THEN [f |-> f, b |-> null_block, err |-> "end_of_stream_exception"]
    ELSE IF \E i \in Range(f.m_used) : f.blocks[i].number = block
    THEN [f |-> [f EXCEPT !.blocks[SelectSeq(f.m_used,
                                             LAMBDA i : f.blocks[i].number = block)[1]].usage = @ + 1],
          b |-> SelectSeq(f.m_used, LAMBDA i : f.blocks[i].number = block)[1],
          err |-> ""]
    ELSE IF f.m_free = <<>>
    THEN [f |-> f, b |-> null_block, err |-> "assert"]
    ELSE IF read_block(f, block) > 0 /\ short
    THEN [f |-> [f EXCEPT !.blocks[Head(f.m_free)] =
                              [number |-> block, size |-> read_block(f, block), usage |-> 0]],
          b |-> null_block, err |-> "io_exception"]
    ELSE [f |-> [f EXCEPT !.blocks[Head(f.m_free)] =
                              [number |-> block, size |-> read_block(f, block), usage |-> 1],
                          !.m_free = Tail(@),
                          !.m_used = <<Head(f.m_free)>> \o @],
          b |-> Head(f.m_free), err |-> ""]

\* file_base::free_block; the file is open for reading and no block is
\* dirty, so nothing is written
free_block(f, b) ==
    IF f.blocks[b].usage <= 0 THEN [f EXCEPT !.last.err = "assert"]
    ELSE IF f.blocks[b].usage > 1 THEN [f EXCEPT !.blocks[b].usage = @ - 1]
    ELSE [f EXCEPT !.blocks[b].usage = 0,
                   !.m_used = SelectSeq(@, LAMBDA i : i # b),
                   !.m_free = <<b>> \o @]

\* an update_block_core without the assignment of line 234: m_block keeps
\* pointing to the freed buffer when get_block throws
update_block_core_keeping(f, s, block, short) ==
    IF f.m_block[s] # m_emptyBlock /\ free_block(f, f.m_block[s]).last.err = "assert"
    THEN free_block(f, f.m_block[s])
    ELSE LET g == get_block(IF f.m_block[s] # m_emptyBlock
                            THEN free_block(f, f.m_block[s])
                            ELSE f, block, short)
         IN IF g.err # "" THEN [g.f EXCEPT !.last.err = g.err]
            ELSE [g.f EXCEPT !.m_block[s] = g.b]

\* file_base::stream::update_block_core for stream s and m_nextBlock = block
update_block_core(f, s, block, short) ==
    IF f.m_block[s] # m_emptyBlock /\ free_block(f, f.m_block[s]).last.err = "assert"
    THEN free_block(f, f.m_block[s])
    ELSE LET g == get_block(IF f.m_block[s] # m_emptyBlock
                            THEN [free_block(f, f.m_block[s]) EXCEPT !.m_block[s] = m_emptyBlock]
                            ELSE f, block, short)
         IN IF g.err # "" THEN [g.f EXCEPT !.last.err = g.err]
            ELSE [g.f EXCEPT !.m_block[s] = g.b]

\* an open file of some size and some number of items in a block
FileInit ==
    /\ nodeMap = [n |-> 0, canEvac |-> <<>>, addr |-> <<>>, rels |-> <<>>, ds |-> <<>>]
    /\ pc = "build"
    /\ entry = "none"
    /\ gc = gocontext0
    /\ log = <<>>
    /\ err = ""
    /\ calls = 0
    /\ res = NoResources
    /\ gr = NoGraph
    /\ \E size \in 0..MaxFileSize, blockItems \in 1..MaxBlockItems :
          fb = [NoFile EXCEPT !.size = size, !.blockItems = blockItems]

\* file_base::stream::stream with create_block: a new buffer at the front
\* of m_free, whose fields are not read before get_block sets them; the
\* stream points to the empty block.  seek(offset) decides the block that
\* the first update_block asks for
StreamNew ==
    /\ fb.last.err # "assert" /\ ~fb.closed
    /\ Len(fb.m_block) < MaxStreams
    /\ fb' = [fb EXCEPT !.blocks = (Len(fb.m_block) + 1 :> [number |-> 0, size |-> 0, usage |-> 0]) @@ @,
                        !.heap = @ \cup {Len(fb.m_block) + 1},
                        !.m_free = <<Len(fb.m_block) + 1>> \o @,
                        !.m_block = Append(@, m_emptyBlock),
                        !.last = [op |-> "stream", s |-> Len(fb.m_block) + 1,
                                  block |-> stream_size_max, err |-> ""]]
    /\ UNCHANGED <<nodeMap, pc, entry, gc, log, err, calls, res, gr>>

\* stream_crtp::update_block on stream s, which was not freed; next is
\* m_nextBlock, the block asked for since the last update, or
\* stream_size_max: then the block after the current one is taken
UpdateBlock(s, next, short) ==
    /\ fb.last.err # "assert" /\ ~fb.closed
    /\ fb.m_block[s] # null_block
    /\ \E block \in {IF next = stream_size_max THEN fb.blocks[fb.m_block[s]].number + 1
                      ELSE next} :
          fb' = update_block_core([fb EXCEPT !.last = [op |-> "update_block", s |-> s,
                                                      block |-> block, err |-> ""]],
                                  s, block, short)
    /\ UNCHANGED <<nodeMap, pc, entry, gc, log, err, calls, res, gr>>

\* file_base::stream::free with delete_block, which removes the front of
\* m_free
StreamFree(s) ==
    /\ fb.last.err # "assert" /\ ~fb.closed
    /\ \E f \in {[fb EXCEPT !.last = [op |-> "free", s |-> s,
                                       block |-> stream_size_max, err |-> ""]]} :
          \E g \in {IF f.m_block[s] \notin {null_block, m_emptyBlock}
                    THEN free_block(f, f.m_block[s]) ELSE f} :
              fb' = IF f.m_block[s] = null_block \/ g.last.err = "assert" THEN g
                    ELSE IF g.m_free = <<>> THEN [g EXCEPT !.last.err = "assert"]
                    ELSE [g EXCEPT !.m_free = Tail(@),
                                   !.heap = @ \ {Head(g.m_free)},
                                   !.m_block[s] = null_block]
    /\ UNCHANGED <<nodeMap, pc, entry, gc, log, err, calls, res, gr>>

\* file_base::close and file_base::~file_base
Close ==
    /\ fb.last.err # "assert" /\ ~fb.closed
    /\ fb' = [fb EXCEPT !.closed = TRUE,
                        !.last = [op |-> "close", s |-> 0, block |-> stream_size_max,
                                  err |-> IF fb.m_free = <<>> /\ fb.m_used = <<>>
                                          THEN "" ELSE "assert"]]
    /\ UNCHANGED <<nodeMap, pc, entry, gc, log, err, calls, res, gr>>

FileSpec ==
    FileInit /\ [][\/ StreamNew
                   \/ \E s \in DOMAIN fb.m_block, next \in {stream_size_max} \cup 0..MaxBlock,
                         short \in BOOLEAN : UpdateBlock(s, next, short)
                   \/ \E s \in DOMAIN fb.m_block : StreamFree(s)
                   \/ Close]_vars

\* ------------------------------------------------------------------------
\* The vocabulary of the properties.  Phases, edges and initiators are
\* defined here from the declared relations alone, not from what the
\* runtime computed.
\* ------------------------------------------------------------------------
Nodes == 1..nodeMap.n

Rels == {nodeMap.rels[i] : i \in DOMAIN nodeMap.rels}

\* a run was started
Ran == entry # "none"

\* go_init returned a context, which holds the final phase sequence
InitOk == Ran /\ gc.phases # <<>>

\* the position of the node's phase in the final sequence, from 1
PhaseOf(id) == CHOOSE k \in DOMAIN gc.phases : id \in Range(gc.phases[k])

Compose(A, B) == {<<x[1][1], x[2][2]>> : x \in {y \in A \X B : y[1][2] = y[2][1]}}

RECURSIVE Closure(_, _)
Closure(R, k) == IF k = 0 THEN R ELSE LET C == Closure(R, k - 1) IN C \cup Compose(C, R)

\* the pairs of nodes joined by a pushes or pulls relation, either way
Linked ==
    LET l == {<<r.from, r.to>> : r \in {x \in Rels : ~IsDepends(x.rel)}}
    IN l \cup {<<e[2], e[1]>> : e \in l}

\* the phases: the classes of nodes connected by pushes and pulls
Classes ==
    LET c == Closure(Linked, nodeMap.n)
    IN {{b \in Nodes : b = a \/ <<a, b>> \in c} : a \in Nodes}

\* <<A, B>>: a node of B depends on a node of A, so A has to run before B
DepEdges(cl) ==
    {e \in cl \X cl :
        /\ e[1] # e[2]
        /\ \E r \in Rels : IsDepends(r.rel) /\ r.to \in e[1] /\ r.from \in e[2]}

\* the green ones among them: memory shared by a node that cannot evacuate
GreenEdges(cl) ==
    {e \in cl \X cl :
        /\ e[1] # e[2]
        /\ \E r \in Rels : /\ r.rel = "memory_share_depends"
                           /\ ~nodeMap.canEvac[r.to]
                           /\ r.to \in e[1] /\ r.from \in e[2]}

HasCycle(cl, edges) == \E A \in cl : <<A, A>> \in Closure(edges, Cardinality(cl))

\* the sequences that hold every phase once
Orders(cl) ==
    {s \in [1..Cardinality(cl) -> cl] : \A i, j \in DOMAIN s : i # j => s[i] # s[j]}

PosIn(s, A) == CHOOSE i \in DOMAIN s : s[i] = A

\* some order of the phases respects every dependency and has every green
\* edge's destination immediately after its source
Achievable(cl) ==
    \E s \in Orders(cl) :
        /\ \A e \in DepEdges(cl) : PosIn(s, e[1]) < PosIn(s, e[2])
        /\ \A e \in GreenEdges(cl) : PosIn(s, e[2]) = PosIn(s, e[1]) + 1

\* u -> v: items flow from u to v
ItemFlowEdges ==
    {<<r.from, r.to>> : r \in {x \in Rels : x.rel = "pushes"}}
    \cup {<<r.to, r.from>> : r \in {x \in Rels : x.rel = "pulls"}}

\* u -> v: u pushes to v or u pulls from v, as declared
ActorEdges == {<<r.from, r.to>> : r \in {x \in Rels : ~IsDepends(x.rel)}}

Initiator(n) == \A r \in Rels : ~(r.to = n /\ r.rel \in {"pushes", "pulls"})

\* log[j] is the call op on node (or phase position) n
Is(j, op, n) == log[j].op = op /\ log[j].n = n

\* an earlier event of the same runtime call is the call op on n
Earlier(j, op, n) == \E i \in 1..(j - 1) : Is(i, op, n) /\ log[i].call = log[j].call

\* a later event of the same runtime call is the call op on n
Later(j, op, n) == \E i \in (j + 1)..Len(log) : Is(i, op, n) /\ log[i].call = log[j].call

\* the nodes on which op was called, in the order of the calls
Calls(op) ==
    LET at == SelectSeq([j \in DOMAIN log |-> j], LAMBDA j : log[j].op = op)
    IN [k \in DOMAIN at |-> log[at[k]].n]

Count(op, n) == Cardinality({j \in DOMAIN log : Is(j, op, n)})

\* ------------------------------------------------------------------------
\* C1: whenever go_init succeeds, for every depends, no_forward_depends or
\* memory_share_depends relation between nodes of different phases the
\* phase of the node depended upon comes strictly earlier in the final
\* sequence than the phase of the dependent node.
\* ------------------------------------------------------------------------
C1_DependedUponPhaseEarlier ==
    InitOk =>
        \A r \in Rels :
            (IsDepends(r.rel) /\ PhaseOf(r.from) # PhaseOf(r.to))
                => PhaseOf(r.to) < PhaseOf(r.from)

\* ------------------------------------------------------------------------
\* C2: phases run one at a time in sequence order: before propagate() or
\* begin() is called on a node of the phase at position k+1, end() was
\* called on every node of the phase at position k; hence for every
\* dependency between nodes of different phases the end() of the node
\* depended upon precedes the begin() of the dependent node.
\* ------------------------------------------------------------------------
C2_PhasesInSequence ==
    InitOk =>
        \A j \in DOMAIN log :
            (log[j].op \in {"propagate", "begin"} /\ PhaseOf(log[j].n) > 1)
                => \A m \in Range(gc.phases[PhaseOf(log[j].n) - 1]) :
                       \E i \in 1..(j - 1) : Is(i, "end", m)

C2_PhasesOneAtATime ==
    /\ C2_PhasesInSequence
    /\ InitOk =>
          \A r \in Rels :
              (IsDepends(r.rel) /\ PhaseOf(r.from) # PhaseOf(r.to))
                  => \A j \in DOMAIN log :
                         Is(j, "begin", r.from)
                             => \E i \in 1..(j - 1) : Is(i, "end", r.to)

\* ------------------------------------------------------------------------
\* C3: whenever go_init succeeds, the destination phase of every green edge
\* (a memory_share_depends relation between different phases whose source
\* cannot evacuate) comes immediately after the source phase.  When the
\* dependencies are acyclic and no order can achieve that, go_init fails
\* with CannotSatisfyAllGreenEdges; when the green edges form a cycle it
\* fails with CannotSatisfyAllGreenEdges or with NotADag.
\* ------------------------------------------------------------------------
C3_GreenAdjacent ==
    InitOk =>
        \A r \in Rels :
            (/\ r.rel = "memory_share_depends"
             /\ ~nodeMap.canEvac[r.to]
             /\ PhaseOf(r.from) # PhaseOf(r.to))
                => PhaseOf(r.from) = PhaseOf(r.to) + 1

C4_PhaseCycleRejected ==
    (Ran /\ HasCycle(Classes, DepEdges(Classes))) => (~InitOk /\ err # "")

\* ------------------------------------------------------------------------
\* C5: for every item-flow edge u -> v (u pushes to v, or v pulls from u)
\* prepare(u) is called before prepare(v) and propagate(u) is called before
\* propagate(v).
\* ------------------------------------------------------------------------
C5_ItemFlowOrder ==
    \A e \in ItemFlowEdges :
        \A j \in DOMAIN log :
            /\ Is(j, "prepare", e[2]) => Earlier(j, "prepare", e[1])
            /\ Is(j, "propagate", e[2]) => Earlier(j, "propagate", e[1])

\* a push edge and a pull edge, and both ends of both were propagated
C5_Witness ==
    /\ \E r \in Rels : r.rel = "pushes" /\ Count("propagate", r.to) > 0
    /\ \E r \in Rels : r.rel = "pulls" /\ Count("propagate", r.from) > 0
                       /\ Count("prepare", r.from) > 0

\* ------------------------------------------------------------------------
\* C6: begin() follows the relations as declared, not the item flow: for an
\* item-flow edge u -> v that is a pushes relation u -> v, begin(v) is
\* called before begin(u); for one that is a pulls relation declared v -> u,
\* begin(u) is called before begin(v).
\* ------------------------------------------------------------------------
C6_BeginOrder ==
    \A r \in Rels :
        \A j \in DOMAIN log :
            /\ (r.rel = "pushes" /\ Is(j, "begin", r.from)) => Earlier(j, "begin", r.to)
            /\ (r.rel = "pulls" /\ Is(j, "begin", r.from)) => Earlier(j, "begin", r.to)

\* C6 as the specification words it: for every item-flow edge u -> v,
\* begin(v) is called before begin(u) (sink first).
C6_SinkFirst ==
    \A e \in ItemFlowEdges :
        \A j \in DOMAIN log : Is(j, "begin", e[1]) => Earlier(j, "begin", e[2])

\* a node that pulls has begun
C6_Witness ==
    \E r \in Rels : r.rel = "pulls" /\ Count("begin", r.from) > 0 /\ Count("begin", r.to) > 0

\* ------------------------------------------------------------------------
\* C7: for every pushes or pulls relation declared from u to v, begin(v) is
\* called before begin(u) and end(u) is called before end(v); for the chain
\* 1 pushes 2 pushes 3 the begin order is 3,2,1 and the end order 1,2,3
\* when no node call throws.
\* ------------------------------------------------------------------------
Chain ==
    /\ nodeMap.n = 3
    /\ nodeMap.rels = <<[from |-> 1, to |-> 2, rel |-> "pushes"],
                        [from |-> 2, to |-> 3, rel |-> "pushes"]>>

C7_ActorOrder ==
    /\ \A e \in ActorEdges :
          \A j \in DOMAIN log :
              /\ Is(j, "begin", e[1]) => Earlier(j, "begin", e[2])
              /\ Is(j, "end", e[2]) => Earlier(j, "end", e[1])
    /\ (Chain /\ entry = "go" /\ err # "NodeException")
          => (err = "" /\ Calls("begin") = <<3, 2, 1>> /\ Calls("end") = <<1, 2, 3>>)

\* go() ran the chain
C7_Witness == Chain /\ entry = "go" /\ Len(Calls("end")) = 3

\* ------------------------------------------------------------------------
\* C8: in every phase that go() runs to completion, go() is called exactly
\* once on every initiator and never on another node, after every begin()
\* and before every end() of the phase.
\* ------------------------------------------------------------------------
Completed(k) == \A m \in Range(gc.phases[k]) : Count("end", m) > 0

C8_GoOnInitiators ==
    (entry = "go" /\ InitOk) =>
        \A k \in DOMAIN gc.phases :
            \A m \in Range(gc.phases[k]) :
                /\ ~Initiator(m) => Count("go", m) = 0
                /\ (Completed(k) /\ Initiator(m)) => Count("go", m) = 1
                /\ \A j \in DOMAIN log :
                      Is(j, "go", m) =>
                          \A x \in Range(gc.phases[k]) :
                              /\ \E i \in 1..(j - 1) : Is(i, "begin", x)
                              /\ Completed(k) => \E i \in (j + 1)..Len(log) : Is(i, "end", x)
                              /\ \A i \in DOMAIN log :
                                    /\ Is(i, "begin", x) => i < j
                                    /\ Is(i, "end", x) => i > j

\* go() completed a phase that has two initiators and another node
C8_Witness ==
    /\ entry = "go" /\ err = ""
    /\ \E k \in DOMAIN gc.phases :
          /\ Cardinality({m \in Range(gc.phases[k]) : Initiator(m)}) = 2
          /\ \E m \in Range(gc.phases[k]) : ~Initiator(m)
          /\ Completed(k)

\* ------------------------------------------------------------------------
\* C9: within a go_until call the calls of one phase i come in this order:
\* evacuate() on the marked nodes of phase i-1, propagate() on the nodes of
\* phase i, their file and memory budgets, init of the phase's progress
\* sub-indicator, begin(), go(), end(), the release of the datastructures
\* of phase i, done of the phase's progress.  Every node has its budgets
\* set after its propagate() and before any begin() of its phase, and
\* evacuate() is called only on marked nodes, after their end().
\* ------------------------------------------------------------------------
\* the phase, from 1, whose turn the event belongs to
Turn(j) ==
    IF log[j].op = "evacuate" THEN PhaseOf(log[j].n) + 1
    ELSE IF log[j].op \in {"pi_init", "pi_done", "free"} THEN log[j].n + 1
    ELSE PhaseOf(log[j].n)

Step(op) ==
    CASE op = "evacuate" -> 1
      [] op = "propagate" -> 2
      [] op \in {"set_files", "set_memory"} -> 3
      [] op = "pi_init" -> 4
      [] op = "begin" -> 5
      [] op = "go" -> 6
      [] op = "end" -> 7
      [] op = "free" -> 8
      [] op = "pi_done" -> 9

\* the events made by go_until, the fractional root's aside
RunEvents == {j \in DOMAIN log : log[j].call >= 1 /\ log[j].op \notin {"fp_init", "fp_done"}}

Marked(k) == {x \in Range(gc.phases[k]) : x \in gc.evacuateWhenDone /\ nodeMap.canEvac[x]}

C9_PhaseCallOrder ==
    InitOk =>
        /\ \A i, j \in RunEvents :
              (i < j /\ log[i].call = log[j].call /\ Turn(i) = Turn(j))
                  => Step(log[i].op) <= Step(log[j].op)
        /\ \A j \in RunEvents :
              /\ log[j].op = "propagate" =>
                    \A x \in (IF Turn(j) > 1 THEN Marked(Turn(j) - 1) ELSE {}) :
                        Earlier(j, "evacuate", x)
              /\ log[j].op = "begin" =>
                    /\ Earlier(j, "pi_init", Turn(j) - 1)
                    /\ \A y \in Range(gc.phases[Turn(j)]) :
                          \A op \in {"set_files", "set_memory"} :
                              \E b \in 1..(j - 1) :
                                  /\ Is(b, op, y) /\ log[b].call = log[j].call
                                  /\ Earlier(b, "propagate", y)
              /\ log[j].op = "go" =>
                    \A y \in Range(gc.phases[Turn(j)]) :
                        /\ Earlier(j, "begin", y)
                        /\ err # "NodeException" => Later(j, "end", y)
              /\ log[j].op = "free" =>
                    /\ \A y \in Range(gc.phases[Turn(j)]) :
                          Earlier(j, "begin", y) /\ Earlier(j, "end", y)
                    /\ Later(j, "pi_done", log[j].n)
              /\ log[j].op = "evacuate" =>
                    /\ log[j].n \in Marked(PhaseOf(log[j].n))
                    /\ \E i \in 1..(j - 1) : Is(i, "end", log[j].n)

\* a node was evacuated and the phase after it ran to its end
C9_Witness ==
    /\ InitOk
    /\ \E j \in DOMAIN log :
          /\ log[j].op = "evacuate"
          /\ \E i \in (j + 1)..Len(log) : log[i].op = "pi_done" /\ log[i].n = PhaseOf(log[j].n)

\* ------------------------------------------------------------------------
\* C10: whenever some phase contains no initiator, go() fails before any
\* propagate(), begin(), go() or end() is called; the error is
\* NoInitiatorNode when go_init succeeds, and go_init's error when go_init
\* fails first.  NoInitiatorNode is reported for no other reason.
\* ------------------------------------------------------------------------
NoInitiatorPhase == \E A \in Classes : \A n \in A : ~Initiator(n)

C10_NoInitiatorFails ==
    entry = "go" =>
        /\ NoInitiatorPhase =>
              /\ err # ""
              /\ \A j \in DOMAIN log : log[j].op \notin {"propagate", "begin", "go", "end"}
              /\ InitOk => err = "NoInitiatorNode"
              /\ ~InitOk => err \in {"NotADag", "CannotSatisfyAllGreenEdges"}
        /\ err = "NoInitiatorNode" => (NoInitiatorPhase /\ InitOk)

\* C10 as the specification words it: go() fails with NoInitiatorNode
\* whenever some phase contains no initiator.
C10_AlwaysNoInitiatorNode ==
    (entry = "go" /\ NoInitiatorPhase) => err = "NoInitiatorNode"

\* go() failed with NoInitiatorNode
C10_Witness == entry = "go" /\ err = "NoInitiatorNode" /\ NoInitiatorPhase

\* ------------------------------------------------------------------------
\* C18: a complete go() calls evacuate() once on every node that can
\* evacuate, lies in a phase other than the last and is the node depended
\* upon in some memory_share_depends relation whose dependent is not in the
\* phase that runs immediately after the node's phase, and on no other
\* node; the number of evacuate() calls is the number of these nodes.
\* ------------------------------------------------------------------------
\* the memory_share_depends relations, by their position in the node map,
\* whose dependent is not in the phase right after the phase of the node
\* depended upon
FarShares ==
    {i \in DOMAIN nodeMap.rels :
        /\ nodeMap.rels[i].rel = "memory_share_depends"
        /\ PhaseOf(nodeMap.rels[i].to) + 1 # PhaseOf(nodeMap.rels[i].from)}

Evacuated ==
    {n \in Nodes :
        /\ nodeMap.canEvac[n]
        /\ PhaseOf(n) < Len(gc.phases)
        /\ \E i \in FarShares : nodeMap.rels[i].to = n}

C19_EvacuationSet ==
    InitOk =>
        \A id \in Nodes :
            id \in gc.evacuateWhenDone <=> \E i \in FarShares : nodeMap.rels[i].to = id

\* get_phases returned with one shared node marked and another, whose
\* dependent runs right after it, not marked
C19_Witness ==
    /\ InitOk
    /\ gc.evacuateWhenDone # {}
    /\ \E r \in Rels :
          /\ r.rel = "memory_share_depends"
          /\ r.to \notin gc.evacuateWhenDone
          /\ PhaseOf(r.to) + 1 = PhaseOf(r.from)

\* ------------------------------------------------------------------------
\* C11: when a node's propagate(), begin() or go() throws during a phase of
\* go(), the throwing call is the last call of the run: no end() is ever
\* called on a node of that phase, no node of a later phase receives a call
\* from go_until, and done() is called neither on the phase's progress
\* sub-indicator nor on the fractional root.
\* ------------------------------------------------------------------------
NodeOps == {"prepare", "set_files", "set_memory", "propagate", "begin", "go", "end", "evacuate"}

\* go() was left by the exception of a node call, the last event of the log
Thrown == entry = "go" /\ err = "NodeException"

C17_ReleasedWhenLastPhaseEnds ==
    InitOk =>
        \A d \in DOMAIN gc.drt :
            d \in gc.released <=> Completed(gc.drt[d].right_most_phase + 1)

\* ------------------------------------------------------------------------
\* C20: a go_until call that returns for a node whose phase was not started
\* before the call leaves that phase begun and not run: begin() was called
\* once on every node of every phase the call started, the node's phase
\* included; go() was called once on the initiators, and end() once on the
\* nodes, of the phases started before the node's phase; on the node's
\* phase neither go() nor end() was called, and no later phase was touched.
\* ------------------------------------------------------------------------
\* the calls op on node n that the step's runtime call made
NewCount(op, n) ==
    Cardinality({j \in DOMAIN log' : /\ log'[j].call = calls'
                                     /\ log'[j].op = op /\ log'[j].n = n})

\* the step is go_until(node), it returned, and the node's phase had not
\* been started before
StoppedAt(node) == GoUntil(node) /\ err' = "" /\ gc.i < PhaseOf(node)

C20_StopsBeforeGo ==
    [][\A node \in Nodes :
          StoppedAt(node) =>
              /\ gc'.i = PhaseOf(node)
              /\ \A k \in DOMAIN gc.phases : \A m \in Range(gc.phases[k]) :
                    /\ (gc.i < k /\ k <= PhaseOf(node)) => NewCount("begin", m) = 1
                    /\ (gc.i < k /\ k < PhaseOf(node)) =>
                          /\ NewCount("go", m) = (IF Initiator(m) THEN 1 ELSE 0)
                          /\ NewCount("end", m) = 1
                    /\ k = PhaseOf(node) => (NewCount("go", m) = 0 /\ NewCount("end", m) = 0)
                    /\ k > PhaseOf(node) =>
                          \A op \in {"propagate", "begin", "go", "end"} : NewCount(op, m) = 0
      ]_vars

\* C20 as the specification words it: when go_until(node) returns, every
\* phase up to and including the node's phase has had begin() called on
\* its nodes and go() called on its initiators.
C20_RunsNodePhase ==
    [][\A node \in Nodes :
          (GoUntil(node) /\ err' = "") =>
              \A k \in 1..PhaseOf(node) : \A m \in Range(gc.phases[k]) :
                  /\ Count("begin", m)' >= 1
                  /\ Initiator(m) => Count("go", m)' >= 1
      ]_vars

\* a go_until call ran one phase to its end and stopped in the next, which
\* has an initiator
C20_Witness ==
    /\ entry = "go_init" /\ err = "" /\ calls = 1
    /\ gc.phaseProgress = {1}
    /\ Completed(1)
    /\ \E m \in Range(gc.phases[2]) : Initiator(m) /\ Count("begin", m) = 1

\* ------------------------------------------------------------------------
\* The apportionment of a resource (specification ResSpec)
\* ------------------------------------------------------------------------
\* the phases, from 1, whose resource has been assigned
AssignedPhases == IF res.done THEN DOMAIN res.phases ELSE {}

\* the sum of what the nodes of phase k were given
AssignedSum(k) == SumOver(res.assigned[k], DOMAIN res.assigned[k])

\* the sum of the minimums the nodes of phase k declared
MinimumSum(k) == SumOver([i \in DOMAIN res.phases[k] |-> res.phases[k][i].min], DOMAIN res.phases[k])

\* C12 as stated: for every phase and either kind of resource, the sum of
\* the amounts assigned to the nodes of the phase is at most the budget, and
\* it is at least the sum of the nodes' minimums when the budget suffices.
C12_WithinBudget ==
    \A k \in AssignedPhases :
        /\ AssignedSum(k) <= res.budget
        /\ MinimumSum(k) <= res.budget => AssignedSum(k) >= MinimumSum(k)

\* C12 amended: when the sum of the nodes' minimums is at most the budget,
\* the sum of the amounts assigned to the nodes of the phase lies between
\* the sum of the minimums and the budget; when it exceeds the budget, the
\* sum assigned is the sum of the minimums, above the budget.
C12_WithinBudgetWhenItSuffices ==
    \A k \in AssignedPhases :
        IF MinimumSum(k) <= res.budget
        THEN MinimumSum(k) <= AssignedSum(k) /\ AssignedSum(k) <= res.budget
        ELSE AssignedSum(k) = MinimumSum(k)

\* C12 is exercised: of two phases one is over budget on minimums alone, and
\* one is given more than its minimums
C12_Witness ==
    /\ res.done
    /\ \E k \in AssignedPhases : MinimumSum(k) > res.budget
    /\ \E k \in AssignedPhases : MinimumSum(k) < AssignedSum(k) /\ AssignedSum(k) <= res.budget

\* C13: when the sum of the nodes' minimums for a resource exceeds the
\* budget, every node of the phase is assigned exactly its own minimum.
C13_MinimumsWhenOverBudget ==
    \A k \in AssignedPhases :
        MinimumSum(k) > res.budget =>
            \A i \in DOMAIN res.phases[k] : res.assigned[k][i] = res.phases[k][i].min

\* C13 is exercised: a phase of several nodes with positive minimums that
\* exceed the budget together though none does alone
C13_Witness ==
    /\ res.done
    /\ \E k \in AssignedPhases :
          /\ MinimumSum(k) > res.budget
          /\ Len(res.phases[k]) > 1
          /\ \A i \in DOMAIN res.phases[k] :
                res.phases[k][i].min > 0 /\ res.phases[k][i].min <= res.budget

\* the common factors budget * c / fraction_sum for c = 1/4, 1/2, ..., 8
LargerFactors(factor) ==
    {[b |-> factor.b, m |-> j * (Scale \div 4), F |-> factor.F] : j \in 1..32}
        \ {g \in {[b |-> factor.b, m |-> j * (Scale \div 4), F |-> factor.F] : j \in 1..32} :
              g.m <= factor.m}

\* C14: when the sum of the minimums does not exceed the budget, the factor
\* of get_files_factor is maximal: no larger common factor has a total, the
\* sum of clamp(min, max, factor * fraction) over the nodes, that is still at
\* most the budget and above the total assigned.
C14_FactorIsMaximal ==
    \A k \in AssignedPhases :
        res.type = "FILES" /\ MinimumSum(k) <= res.budget =>
            \A g \in LargerFactors(get_files_factor(res.budget, res.phases[k])) :
                ~ /\ sum_assigned_usage(res.phases[k], g) <= res.budget
                  /\ sum_assigned_usage(res.phases[k], g) > AssignedSum(k)

\* C15: two nodes in one phase with (min 100, max 1000, fraction 1) and
\* (min 200, max 400, fraction 3) and a budget of 800: the second node is
\* assigned 400 and the first node is assigned 400.
C15_MemorySplit ==
    /\ res.done
    /\ res.budget = 800
    /\ res.phases = <<<<[min |-> 100, max |-> 1000, fraction |-> 1, ds |-> <<>>],
                        [min |-> 200, max |-> 400, fraction |-> 3, ds |-> <<>>]>>>>
    => res.assigned = <<<<400, 400>>>>

\* the phases, from 1, of the range of datastructure d
RangeOf(d) == (res.drt[d].left_most_phase + 1)..(res.drt[d].right_most_phase + 1)

\* f is the least of the factors of the first pass over the range of d
LeastFirstFactor(d, f) ==
    /\ \E k \in RangeOf(d) : f = res.first[k]
    /\ \A k \in RangeOf(d) : f.m * res.first[k].F <= res.first[k].m * f.F

\* C16: for every datastructure d, the amount the locked second pass counts
\* for d is the same in every phase of [d.left_most_phase,
\* d.right_most_phase] and is the amount stored for d in the node map,
\* clamp(d.min, d.max, d.factor * d.priority) with d.factor the minimum of
\* the first-pass factors over the phases of that range.
C16_SameAmountOverRange ==
    res.done /\ res.type = "MEMORY" =>
        \A d \in DOMAIN res.drt :
            /\ \A k \in RangeOf(d) : d \in DOMAIN res.counted[k] /\ res.counted[k][d] = res.stored[d]
            /\ \E f \in {res.first[k] : k \in RangeOf(d)} :
                  /\ LeastFirstFactor(d, f)
                  /\ res.stored[d] = clamp(res.drt[d].min, res.drt[d].max,
                                           Truncated(f, res.drt[d].priority))

\* C16 is exercised: a datastructure used over two phases whose first-pass
\* factors differ, the later one being the larger, and whose amount lies
\* strictly between its limits
C16_Witness ==
    /\ res.done
    /\ res.type = "MEMORY"
    /\ \E d \in DOMAIN res.drt :
          /\ res.drt[d].left_most_phase < res.drt[d].right_most_phase
          /\ res.first[1].m * res.first[2].F < res.first[2].m * res.first[1].F
          /\ res.drt[d].min < res.stored[d]
          /\ res.stored[d] < res.drt[d].max

\* ------------------------------------------------------------------------
\* Repeated go_until calls on one context
\* ------------------------------------------------------------------------
\* the events that a go_until step adds to the log
NewEvents == SubSeq(log', Len(log) + 1, Len(log'))

\* the previous call began the phase at position gc.i and returned before
\* its end()
Suspended ==
    /\ gc.i \in DOMAIN gc.phases
    /\ \A m \in Range(gc.phases[gc.i]) : Count("begin", m) > Count("end", m)

\* begin() and end() at most once on every node, end() after begin()
OnceEach ==
    entry = "go_init" =>
        \A m \in Nodes :
            /\ Count("begin", m) <= 1
            /\ Count("end", m) <= 1
            /\ \A j \in DOMAIN log : Is(j, "end", m) => \E i \in 1..(j - 1) : Is(i, "begin", m)

\* the call after a suspension starts with end() on the nodes of the
\* suspended phase
ResumeEndsSuspendedPhase ==
    \A node \in 0..nodeMap.n :
        GoUntil(node) /\ Suspended =>
            /\ Len(NewEvents) >= Len(gc.phases[gc.i])
            /\ \A k \in 1..Len(gc.phases[gc.i]) : NewEvents[k].op = "end"
            /\ {NewEvents[k].n : k \in 1..Len(gc.phases[gc.i])} = Range(gc.phases[gc.i])

\* a call on a context whose phases have all completed adds no event
NothingAfterCompletion ==
    \A node \in 0..nodeMap.n :
        GoUntil(node) /\ gc.i > Len(gc.phases) => log' = log

\* C21: over any sequence of go_until calls on one context in which no node
\* throws, every node has begin() called at most once and end() called at
\* most once, end() only after its begin(); when a call returned early at a
\* target's phase, the next call first calls end() on exactly that phase's
\* nodes; and once all phases have completed, further go_until calls make
\* no lifecycle call at all.
C21_OneShotLifecycle ==
    /\ []OnceEach
    /\ [][ResumeEndsSuspendedPhase]_vars
    /\ [][NothingAfterCompletion]_vars

\* ------------------------------------------------------------------------
\* The states of a node
\* ------------------------------------------------------------------------
\* go() returned without an error
Complete == entry = "go" /\ pc = "done"

\* the states of the node state machine in its order; an initiator passes
\* through STATE_IN_GO and back to STATE_AFTER_BEGIN
Lifecycle(n) ==
    <<"STATE_FRESH", "STATE_IN_PREPARE", "STATE_AFTER_PREPARE", "STATE_IN_PROPAGATE",
      "STATE_AFTER_PROPAGATE", "STATE_IN_BEGIN", "STATE_AFTER_BEGIN">>
    \o (IF Initiator(n) THEN <<"STATE_IN_GO", "STATE_AFTER_BEGIN">> ELSE <<>>)
    \o <<"STATE_IN_END", "STATE_AFTER_END">>

\* C22: in a complete go() the states of every node are, in this order,
\* FRESH, IN_PREPARE, AFTER_PREPARE, IN_PROPAGATE, AFTER_PROPAGATE, IN_BEGIN,
\* AFTER_BEGIN, then IN_GO and AFTER_BEGIN again for an initiator and for no
\* other node, then IN_END and AFTER_END: each transition is taken once and
\* none else is taken.
C22_NodeStateMachine ==
    Complete => \A n \in Nodes : node_states(log, n) = Lifecycle(n)

\* a complete go() of two phases with initiators and other nodes
C22_Witness ==
    /\ Complete
    /\ Len(gc.phases) = 2
    /\ \E n, m \in Nodes : Initiator(n) /\ ~Initiator(m)
    /\ \A n \in Nodes : node_states(log, n) = Lifecycle(n)

\* ------------------------------------------------------------------------
\* The phase map
\* ------------------------------------------------------------------------
\* C23: get_phase_map gives every node one phase number; two nodes have the
\* same number if and only if a chain of pushes and pulls relations, each
\* taken in either direction, connects them, whatever depends,
\* no_forward_depends and memory_share_depends relations are declared; and
\* the numbers in use are exactly 0..P-1, P being the number of phases.
C23_PhaseMap ==
    \E phaseMap \in {get_phase_map(nodeMap)} :
        /\ DOMAIN phaseMap = Nodes
        /\ \A a, b \in Nodes :
              (phaseMap[a] = phaseMap[b]) <=> (a = b \/ <<a, b>> \in Closure(Linked, nodeMap.n))
        /\ {phaseMap[a] : a \in Nodes} = 0..(Cardinality(Classes) - 1)

\* three nodes in two phases: two of them joined by a pulls relation, the
\* third depending on one of them
C23_Witness ==
    /\ nodeMap.n = 3
    /\ \E r \in Rels : r.rel = "pulls"
    /\ \E phaseMap \in {get_phase_map(nodeMap)} :
          /\ {phaseMap[a] : a \in Nodes} = {0, 1}
          /\ \E r \in Rels : IsDepends(r.rel) /\ phaseMap[r.from] # phaseMap[r.to]

\* ------------------------------------------------------------------------
\* Three nodes pulling in a cycle
\* ------------------------------------------------------------------------
\* the pipeline is three nodes and three pulls relations that form a cycle
PullsCycle ==
    /\ nodeMap.n = 3
    /\ Cardinality(Rels) = 3
    /\ \A r \in Rels : r.rel = "pulls"
    /\ \A n \in Nodes : (\E r \in Rels : r.from = n) /\ (\E r \in Rels : r.to = n)

\* C27 as stated: go() on a pipeline of three nodes that pull from each
\* other in a cycle fails with NoInitiatorNode.
C27_PullsCycleNoInitiatorNode ==
    PullsCycle /\ entry = "go" => err = "NoInitiatorNode"

\* C27: go() on a pipeline of three nodes that pull from each other in a
\* cycle fails with NotADag, raised by go_init before any node is called.
C27_PullsCycleNotADag ==
    PullsCycle /\ entry = "go" =>
        /\ err = "NotADag"
        /\ \A j \in DOMAIN log : log[j].op \notin NodeOps

\* go() was called on such a pipeline
C27_Witness == PullsCycle /\ entry = "go" /\ pc = "failed"

\* ------------------------------------------------------------------------
\* The graph operations.  The graph given is gr.sg; its edges, its paths and
\* its cycles are defined here from its edge lists alone.
\* ------------------------------------------------------------------------
\* u -> v: v is in the edge list of u
EdgesOf(g) == {e \in g.nodes \X g.nodes : e[2] \in Range(g.edges[e[1]])}

\* u -> v: a path of one edge or more leads from u to v
Reach(g) == Closure(EdgesOf(g), MaxGraphNodes)

Cyclic(g) == \E v \in g.nodes : <<v, v>> \in Reach(g)

\* each element of S is in the sequence exactly once, and nothing else is
ListsOnce(s, S) == Len(s) = Cardinality(S) /\ Range(s) = S

\* C28: graph::topological_order fails with NotADag if and only if the
\* graph has a cycle, a self-loop included; otherwise it returns every node
\* exactly once, u before v for every edge (u, v).
C28_TopologicalOrder ==
    gr.op = "topological_order" =>
        /\ ~gr.result.ok <=> Cyclic(gr.sg.g)
        /\ gr.result.ok =>
              /\ ListsOnce(gr.result.order, gr.sg.g.nodes)
              /\ \A e \in EdgesOf(gr.sg.g) :
                    PosIn(gr.result.order, e[1]) < PosIn(gr.result.order, e[2])

\* an acyclic graph of four nodes and three edges was ordered
C28_Witness ==
    /\ gr.op = "topological_order"
    /\ gr.result.ok
    /\ Cardinality(gr.sg.g.nodes) = 4
    /\ Cardinality(EdgesOf(gr.sg.g)) = 3

\* a graph with a self-loop and no other cycle was rejected
C28_WitnessSelfLoop ==
    /\ gr.op = "topological_order"
    /\ ~gr.result.ok
    /\ \E v \in gr.sg.g.nodes : <<v, v>> \in EdgesOf(gr.sg.g)
    /\ \A e \in EdgesOf(gr.sg.g) : e[1] # e[2] => <<e[2], e[1]>> \notin Reach(gr.sg.g)

\* the strongly connected component of v
Component(g, v) == {w \in g.nodes : w = v \/ (<<v, w>> \in Reach(g) /\ <<w, v>> \in Reach(g))}

\* C29: strongly_connected_components returns each strongly connected
\* component of the graph once and nothing else, a partition of the nodes,
\* and for every edge (u, v) between two components the component of u is
\* listed before the component of v.
C29_Components ==
    gr.op = "strongly_connected_components" =>
        /\ ListsOnce(gr.result, {Component(gr.sg.g, v) : v \in gr.sg.g.nodes})
        /\ \A e \in EdgesOf(gr.sg.g) :
              Component(gr.sg.g, e[1]) # Component(gr.sg.g, e[2]) =>
                  PosIn(gr.result, Component(gr.sg.g, e[1]))
                      < PosIn(gr.result, Component(gr.sg.g, e[2]))

\* a graph with a component of several nodes and an edge between two
\* components was decomposed
C29_Witness ==
    /\ gr.op = "strongly_connected_components"
    /\ \E v \in gr.sg.g.nodes : Cardinality(Component(gr.sg.g, v)) > 1
    /\ \E e \in EdgesOf(gr.sg.g) : Component(gr.sg.g, e[1]) # Component(gr.sg.g, e[2])
    /\ Len(gr.result) = 3

\* the edge (u, v) of g has another path from u to v: a second copy of the
\* edge, or a path through a third node
AnotherPath(g, e) ==
    \/ Cardinality({k \in DOMAIN g.edges[e[1]] : g.edges[e[1]][k] = e[2]}) > 1
    \/ \E w \in g.nodes \ {e[1], e[2]} :
          (<<e[1], w>> \in Reach(g) /\ <<w, e[2]>> \in Reach(g))

TopologicalOrders(g) ==
    {s \in [1..Cardinality(g.nodes) -> g.nodes] :
        /\ Range(s) = g.nodes
        /\ \A e \in EdgesOf(g) : PosIn(s, e[1]) < PosIn(s, e[2])}

\* the satisfiable edges (u, v) that have v immediately after u in the order
Adjacent(sg, order) ==
    Cardinality({e \in sg.sat : \E i \in 1..(Len(order) - 1) :
                                   order[i] = e[1] /\ order[i + 1] = e[2]})

\* the most that any topological order makes adjacent
MostAdjacent(sg) ==
    CHOOSE m \in 0..Cardinality(sg.sat) :
        /\ \E s \in TopologicalOrders(sg.g) : Adjacent(sg, s) = m
        /\ \A s \in TopologicalOrders(sg.g) : Adjacent(sg, s) <= m

\* the other one of the two strategies
OtherStrategy ==
    IF gr.op = "BRUTEFORCE_ORDER" THEN "BRUTEFORCE_SATISFIABLE" ELSE "BRUTEFORCE_ORDER"

Between == {r \in Rels : IsDepends(r.rel)}

\* the phase of node n, as a set
ClassOf(n) == CHOOSE A \in Classes : n \in A

\* the final phase sequence, each phase as a set
PhaseSets == [k \in DOMAIN gc.phases |-> Range(gc.phases[k])]

\* the pipeline is three phases of two nodes, and its only relation between
\* phases is a memory_share_depends on a node that can evacuate
OneRedEdge ==
    /\ nodeMap.n = 6
    /\ \E r \in Between : Between = {r} /\ r.rel = "memory_share_depends" /\ nodeMap.canEvac[r.to]

\* C25 as stated: with P1 the phase of the node depended upon, P3 the phase
\* of the dependent node and P2 the remaining phase, get_phases yields the
\* sequence P1, P3, P2 and an empty evacuation set.
C25_RedEdgeSequence ==
    OneRedEdge /\ entry = "go_init" =>
        \A r \in Between :
            /\ err = ""
            /\ Len(gc.phases) = 3
            /\ PhaseSets[1] = ClassOf(r.to)
            /\ PhaseSets[2] = ClassOf(r.from)
            /\ gc.evacuateWhenDone = {}

\* C25: with P1 the phase of the node depended upon, P3 the phase of the
\* dependent node and P2 the remaining phase, get_phases yields a sequence
\* of the three phases that has P3 immediately after P1, and an empty
\* evacuation set; when the nodes are created in the order A to F (the
\* relation is from node 5 to node 2) the sequence is P2, P1, P3.
C25_RedEdgeAdjacent ==
    OneRedEdge /\ entry = "go_init" =>
        \A r \in Between :
            /\ err = ""
            /\ Len(gc.phases) = 3
            /\ \E k \in 1..2 : PhaseSets[k] = ClassOf(r.to) /\ PhaseSets[k + 1] = ClassOf(r.from)
            /\ gc.evacuateWhenDone = {}
            /\ r.to = 2 /\ r.from = 5 => PhaseSets = <<{3, 4}, {1, 2}, {5, 6}>>

\* go_init returned on the pipeline whose node 5 shares the memory of node 2
C25_Witness ==
    /\ OneRedEdge
    /\ entry = "go_init"
    /\ err = ""
    /\ \E r \in Between : r.to = 2 /\ r.from = 5

\* the pipeline is three phases of two nodes; a node of one phase (P3)
\* shares the memory of a node of another (P1) that cannot evacuate, a node
\* of the remaining phase (P2) depends on a node of P1, and no other
\* relation is declared between phases
GreenEdgeAndDependency ==
    /\ nodeMap.n = 6
    /\ \E r, d \in Between :
          /\ Between = {r, d}
          /\ r.rel = "memory_share_depends" /\ ~nodeMap.canEvac[r.to]
          /\ d.rel = "depends"
          /\ d.to \in ClassOf(r.to)
          /\ d.from \notin ClassOf(r.to) \cup ClassOf(r.from)

\* C26 as stated: go_init on such a pipeline fails with
\* CannotSatisfyAllGreenEdges.
C26_GreenEdgeInfeasible ==
    GreenEdgeAndDependency /\ entry = "go_init" => err = "CannotSatisfyAllGreenEdges"

\* C26: go_init on such a pipeline succeeds, and the phases run in the
\* order P1, P3, P2, which has P3 immediately after P1 and P2 after P1; no
\* node is to be evacuated.
C26_GreenEdgeSatisfied ==
    GreenEdgeAndDependency /\ entry = "go_init" =>
        \A r \in {x \in Between : x.rel = "memory_share_depends"} :
            /\ err = ""
            /\ Len(gc.phases) = 3
            /\ PhaseSets[1] = ClassOf(r.to)
            /\ PhaseSets[2] = ClassOf(r.from)
            /\ gc.evacuateWhenDone = {}

\* go_init returned on the pipeline whose node 5 shares the memory of node
\* 2, which cannot evacuate, and whose node 3 depends on node 1
C26_Witness ==
    /\ GreenEdgeAndDependency
    /\ entry = "go_init"
    /\ err = ""
    /\ \E r, d \in Between : r.to = 2 /\ r.from = 5 /\ d.to = 1 /\ d.from = 3

\* ------------------------------------------------------------------------
\* C31: inverse_permutation(f) gives g with g[f[i]] = i for every i when f
\* is a permutation of 0..N-1 and fails otherwise, and the call that
\* get_phases makes on the expanded order never fails.
\* ------------------------------------------------------------------------
IsPermutation(f) == \A k \in 0..(Len(f) - 1) : \E i \in DOMAIN f : f[i] = k

C31_InversePermutation ==
    /\ err # "inverse_permutation"
    /\ gr.op = "inverse_permutation" =>
          IF IsPermutation(gr.result.f)
          THEN /\ gr.result.inv.err = ""
               /\ DOMAIN gr.result.inv.result = 0..(Len(gr.result.f) - 1)
               /\ \A i \in DOMAIN gr.result.f :
                      gr.result.inv.result[gr.result.f[i]] = i - 1
          ELSE gr.result.inv.err # ""

\* get_phases made the call on three phases, and a permutation that is not
\* its own inverse was inverted
C31_Witness ==
    /\ pc = "ctx"
    /\ Len(gc.phases) = 3
    /\ gr.op = "inverse_permutation"
    /\ gr.result.f = <<1, 2, 0>>
    /\ gr.result.inv.err = ""
\* ------------------------------------------------------------------------
\* C32: go() checks every phase for an initiator before it runs any phase:
\* if a phase, be it the last one, has no initiator, go() fails with
\* NoInitiatorNode after prepare() ran on every node and before any
\* propagate(), begin(), go(), end() or evacuate() on any node.
\* ------------------------------------------------------------------------
\* no phase was run
NothingRun ==
    \A j \in DOMAIN log : log[j].op \notin {"propagate", "begin", "go", "end", "evacuate"}

\* prepare() ran on every node, and no other call was made on a node
PreparedOnly == NothingRun /\ \A n \in Nodes : Count("prepare", n) = 1

\* C32 as the specification words it
C32_NoInitiatorAfterPrepare ==
    (entry = "go" /\ NoInitiatorPhase) => (err = "NoInitiatorNode" /\ PreparedOnly)

\* C32 of the pipelines whose go_init returns: the check of the initiators
\* follows go_init, which fails on a cyclic item flow, before prepare() ran
\* on every node, and on green edges that cannot be satisfied
C32_NoInitiatorAfterGoInit ==
    entry = "go" =>
        /\ (NoInitiatorPhase /\ InitOk) => (err = "NoInitiatorNode" /\ PreparedOnly)
        /\ (NoInitiatorPhase /\ ~InitOk) =>
              (err \in {"NotADag", "CannotSatisfyAllGreenEdges"} /\ NothingRun)
        /\ err = "NoInitiatorNode" => PreparedOnly

\* the last of several phases is the one without an initiator
C32_Witness ==
    /\ entry = "go"
    /\ err = "NoInitiatorNode"
    /\ Len(gc.phases) > 1
    /\ \A n \in Range(gc.phases[Len(gc.phases)]) : ~Initiator(n)
    /\ \A k \in 1..(Len(gc.phases) - 1) : \E n \in Range(gc.phases[k]) : Initiator(n)
    /\ PreparedOnly
\* ------------------------------------------------------------------------
\* C33: when an exception is thrown while a phase is running, done() is
\* still called on the progress indicators during stack unwinding, so that
\* every init() on a progress indicator is matched by a done().
\* ------------------------------------------------------------------------
\* init() and done() were called equally often on the sub-indicator of
\* every phase and on the fractional root
InitsMatched ==
    /\ Count("fp_init", 0) = Count("fp_done", 0)
    /\ \A k \in DOMAIN gc.phases : Count("pi_init", k - 1) = Count("pi_done", k - 1)

Strategies == {"BRUTEFORCE_ORDER", "BRUTEFORCE_SATISFIABLE", "GREEDY", "AUTO"}

C35_FeasibleSubsetFound ==
    (gr.op = "BRUTEFORCE_SATISFIABLE" /\ ~Cyclic(gr.sg.g)) =>
        /\ gr.result.err = ""
        /\ sg_preprocess(gr.sg).sg.sat # {} =>
              /\ MostAdjacent(sg_preprocess(gr.sg).sg) >= 1
              /\ gr.result.satisfied >= 1

\* two satisfiable edges remain and no order makes both adjacent
C35_Witness ==
    /\ gr.op = "BRUTEFORCE_SATISFIABLE"
    /\ ~Cyclic(gr.sg.g)
    /\ Cardinality(sg_preprocess(gr.sg).sg.sat) = 2
    /\ gr.result.err = ""
    /\ gr.result.satisfied = 1
\* ------------------------------------------------------------------------
\* C36: after the two passes of assign_memory, in every phase whose node
\* minimums and alive datastructure minimums together do not exceed the
\* memory budget, the memory assigned to the nodes of the phase plus the
\* memory assigned to every datastructure alive in the phase does not
\* exceed the budget.
\* ------------------------------------------------------------------------
\* the datastructures alive in phase k
AliveIn(k) == {d \in DOMAIN res.drt : k \in RangeOf(d)}

\* the sum of the minimums of the datastructures alive in phase k
AliveMinimumSum(k) == SumOver([d \in DOMAIN res.drt |-> res.drt[d].min], AliveIn(k))

\* the sum of the amounts stored for the datastructures alive in phase k
AliveStoredSum(k) == SumOver(res.stored, AliveIn(k))

AcyclicOnNodes(edges) == \A n \in Nodes : <<n, n>> \notin Closure(edges, nodeMap.n)

\* what the claim asks of the pipeline
WellFormed ==
    /\ nodeMap.n >= 1
    /\ AcyclicOnNodes(ItemFlowEdges)
    /\ AcyclicOnNodes(ActorEdges)
    /\ ~HasCycle(Classes, DepEdges(Classes))
    /\ Achievable(Classes)
    /\ ~NoInitiatorPhase

\* every phase was run once, one after the other in the order of the
\* sequence
EveryPhaseOnceInOrder ==
    /\ {Range(gc.phases[k]) : k \in DOMAIN gc.phases} = Classes
    /\ Len(gc.phases) = Cardinality(Classes)
    /\ Calls("pi_init") = [k \in DOMAIN gc.phases |-> k - 1]
    /\ Calls("pi_done") = [k \in DOMAIN gc.phases |-> k - 1]
    /\ \A n \in Nodes :
          /\ \A op \in {"propagate", "begin", "end"} : Count(op, n) = 1
          /\ Count("go", n) = IF Initiator(n) THEN 1 ELSE 0
    /\ \A i, j \in DOMAIN log :
          (i < j /\ {log[i].op, log[j].op} \subseteq {"propagate", "begin", "go", "end"})
              => PhaseOf(log[i].n) <= PhaseOf(log[j].n)

\* done() of the fractional root once, as the last event, after done() of
\* the indicator of the last phase
RootDoneLast ==
    /\ Count("fp_done", 0) = 1
    /\ log[Len(log)].op = "fp_done"
    /\ \E j \in DOMAIN log : Is(j, "pi_done", Len(gc.phases) - 1)

C37_GoRunsEveryPhase ==
    (entry = "go" /\ WellFormed /\ err # "NodeException") =>
        /\ pc = "done"
        /\ err = ""
        /\ EveryPhaseOnceInOrder
        /\ \A n \in Nodes :
              node_states(log, n)[Len(node_states(log, n))] = "STATE_AFTER_END"
        /\ Count("fp_init", 0) = 1 => RootDoneLast
        /\ Count("fp_init", 0) = 0 => Count("fp_done", 0) = 0
\* ------------------------------------------------------------------------
\* The block buffers of file_base
\* ------------------------------------------------------------------------
\* the streams that were constructed and not freed
LiveStreams == {s \in DOMAIN fb.m_block : fb.m_block[s] # null_block}

\* the buffers in the list
Listed(list) == {list[i] : i \in DOMAIN list}

\* C38: after any sequence of stream constructions, block updates and
\* stream::free calls, every allocated block is in exactly one of m_free
\* and m_used, there are as many blocks as live streams, every used block
\* has usage >= 1 and no two used blocks carry the same number; so no
\* assertion of get_block, free_block or delete_block fails, and none of
\* close or the destructor once every stream has been freed, when both
\* lists are empty.
C38_BlockLists ==
    /\ Listed(fb.m_free) \cup Listed(fb.m_used) = fb.heap
    /\ Listed(fb.m_free) \cap Listed(fb.m_used) = {}
    /\ Len(fb.m_free) + Len(fb.m_used) = Cardinality(fb.heap)
    /\ Cardinality(fb.heap) = Cardinality(LiveStreams)
    /\ \A b \in Listed(fb.m_used) : fb.blocks[b].usage >= 1
    /\ \A b, c \in Listed(fb.m_used) : fb.blocks[b].number = fb.blocks[c].number => b = c
    /\ fb.last.err = "assert" => (fb.last.op = "close" /\ LiveStreams # {})
    /\ LiveStreams = {} => (fb.m_free = <<>> /\ fb.m_used = <<>>)

\* two streams share a used block after a block update, a buffer is free
\* and another stream was freed
C38_Witness ==
    /\ fb.last.op = "update_block"
    /\ fb.last.err = ""
    /\ \E b \in Listed(fb.m_used) : fb.blocks[b].usage = 2
    /\ fb.m_free # <<>>
    /\ \E s \in DOMAIN fb.m_block : s \notin LiveStreams
\* ------------------------------------------------------------------------
\* C39: a request for block b fails with end_of_stream_exception exactly
\* when b * block_items > size: in a file of n full blocks every b in 0..n
\* is accepted, in a file of n - 1 full blocks and one partial block every
\* b in 0..n-1, and an accepted block is read with size
\* min(block_items, size - b * block_items).
\* ------------------------------------------------------------------------
\* the last operation asked for block b
Requested(b) == fb.last.op = "update_block" /\ fb.last.block = b

\* the blocks of the file, the partial one included
BlocksOfFile == (fb.size + fb.blockItems - 1) \div fb.blockItems

C39_EndOfStream ==
    \A b \in 0..(MaxBlock + 1) :
        Requested(b) =>
            /\ fb.last.err = "end_of_stream_exception" <=> b * fb.blockItems > fb.size
            /\ (fb.size % fb.blockItems = 0 /\ b \in 0..BlocksOfFile)
                    => fb.last.err # "end_of_stream_exception"
            /\ (fb.size % fb.blockItems # 0 /\ b \in 0..(BlocksOfFile - 1))
                    => fb.last.err # "end_of_stream_exception"
            /\ b > BlocksOfFile => fb.last.err = "end_of_stream_exception"
            /\ fb.last.err = "" =>
                    /\ fb.blocks[fb.m_block[fb.last.s]].number = b
                    /\ fb.blocks[fb.m_block[fb.last.s]].size
                           = IF fb.blockItems <= fb.size - b * fb.blockItems
                             THEN fb.blockItems
                             ELSE fb.size - b * fb.blockItems

\* the partial block at the end of a file of one full block and one item
\* was read, and the block after it was refused to another stream
C39_Witness ==
    /\ fb.size = 3
    /\ fb.blockItems = 2
    /\ Requested(2)
    /\ fb.last.err = "end_of_stream_exception"
    /\ \E s \in LiveStreams :
          /\ fb.m_block[s] # m_emptyBlock
          /\ fb.blocks[fb.m_block[s]].number = 1
          /\ fb.blocks[fb.m_block[s]].size = 1
\* ------------------------------------------------------------------------
\* A block update that fails
\* ------------------------------------------------------------------------
\* the step is a block update in which get_block throws
UpdateFails ==
    /\ fb' # fb
    /\ fb'.last.op = "update_block"
    /\ fb'.last.err \in {"end_of_stream_exception", "io_exception"}

\* the buffer that the stream of the step gives back before it asks for
\* the block: the one it points to, if no other stream uses it
GivenBack ==
    {b \in {fb.m_block[fb'.last.s]} : b # m_emptyBlock /\ fb.blocks[b].usage = 1}

\* every stream points to the empty block or to a used buffer, and the
\* usage of a buffer counts the streams that point to it
HoldersMatch ==
    /\ \A s \in LiveStreams : fb.m_block[s] \in {m_emptyBlock} \cup Listed(fb.m_used)
    /\ \A b \in fb.heap :
          fb.blocks[b].usage > 0 =>
              fb.blocks[b].usage = Cardinality({s \in LiveStreams : fb.m_block[s] = b})

\* C40: if get_block fails during the block update of a stream, with
\* end_of_stream_exception or io_exception, the failed call leaves the
\* membership of m_free and m_used as it was when the stream had given
\* back its buffer, and the stream points to the empty block; so a later
\* stream::free or block update calls free_block for no buffer that the
\* stream no longer holds.
C40_FailedUpdate ==
    /\ [][UpdateFails =>
              /\ fb'.m_block[fb'.last.s] = m_emptyBlock
              /\ Listed(fb'.m_used) = Listed(fb.m_used) \ GivenBack
              /\ Listed(fb'.m_free) = Listed(fb.m_free) \cup GivenBack
              /\ fb'.heap = fb.heap]_vars
    /\ []HoldersMatch

\* the only stream of the file asked for a block past the end after its
\* buffer had been filled: the buffer is free and the stream points to
\* the empty block
C40_Witness ==
    /\ Len(fb.m_block) = 1
    /\ fb.last.err = "end_of_stream_exception"
    /\ fb.m_block[1] = m_emptyBlock
    /\ fb.m_free = <<1>>
    /\ fb.blocks[1].size > 0
====
